---- MODULE Spec2Model ----
(***************************************************************************)
(* AnonForum: the in-memory DataStore (models/data), the server's request  *)
(* handlers and its hourly cleanup timer.                                  *)
(*                                                                         *)
(* Time is Date.now() in milliseconds, counted from an epoch shifted so    *)
(* that the values fit TLC's integers.  Text is a sequence of one-letter   *)
(* strings, so that trim, toLowerCase and includes are computed.           *)
(***************************************************************************)
EXTENDS Integers, Sequences, FiniteSets, Bags, TLC

VARIABLES
    phase,        \* "starting" until app.listen's callback has run, then "listening"
    now,          \* Date.now()
    posts,        \* DataStore.posts
    likedPosts,   \* DataStore.likedPosts: Map ipHash -> Set of post ids
    pending,      \* bag of the like requests received and not yet handled
    ret,          \* the operation just served and the value it returned
    ords,         \* history: ords[i] is the creation ordinal of posts[i]
    nMade,        \* history: the number of posts built so far (createPost, initSampleData)
    likeLog,      \* history: bag of <<ordinal, ipHash>>, one copy per like accepted
                  \*          for a post that is still stored
    nLikes,       \* history: the number of like requests accepted or waiting
    nComments,    \* history: the number of comments created so far
    gone,         \* history: the ids getPost has answered null for while a post
                  \*          with that id was stored
    res,          \* the server's answer to the request just served, with the
                  \* middleware that passed the request on, in order
    client,       \* the browser's APIClient: where its requestWithRetry call stands
    requests,     \* createRateLimit's Map: key -> [count, resetTime]
    windows       \* history: key -> [start, accepted, nth], the key's latest window:
                  \*          the arrival time of the request that opened it, the
                  \*          number of its requests passed on so far, and the number
                  \*          of windows the key has opened

vars == <<phase, now, posts, likedPosts, pending, ret, ords, nMade, likeLog, nLikes, nComments,
          res, client, gone, requests, windows>>

-----------------------------------------------------------------------------
(* Bounds of the model *)

MaxMade == 3          \* posts built in one run
MaxComments == 1      \* comments created in one run
MaxPending == 2       \* like requests waiting at once
MaxActs == 2          \* likes (accepted or waiting) and comments in one run

(* Program constants.  maxPosts is 500 in the program; the model runs the  *)
(* store with a capacity of 2, and initSampleData with the first two of    *)
(* its three posts, so that the sample posts fit the capacity as they do   *)
(* in the program.                                                         *)

hour == 60 * 60 * 1000
maxPosts == 2
maxAge == 7 * 24 * 60 * 60 * 1000

(* The clock's value when the server starts, and the instants at which the *)
(* model samples the clock afterwards: the start, and the expiry of the    *)
(* posts created at the start and the millisecond after it.                *)
T0 == 6 * hour
Instants == {T0, T0 + maxAge, T0 + maxAge + 1}

(* Inputs *)

IPs == {"ip1", "ip2"}
NodeEnvs == {"production", "development"}

\* Math.random() is r / RandomScale for an r in 0 .. RandomScale - 1
RandomScale == 4
\* the finer scale of the draws when generateAnonId is run on its own
AliasScale == 20
\* the draws of one initSampleData run: the ids, the like counts, the comment's id
SampleDraws ==
    { [ids |-> <<0, 2>>, likes |-> <<0, 3>>, comment |-> 3],
      [ids |-> <<2, 2>>, likes |-> <<2, 2>>, comment |-> 0] }
\* the draws of generateId in createComment
IdDraws == {2}

ListCategories == {"undefined", "tech"}     \* getPosts' category; undefined is falsy
\* the post requests: the body, the address it comes from, and the draw of
\* generateId while it is served (two posts built in the same millisecond
\* with the same draw get the same id)
PostInputs ==
    { [title |-> <<"A", "b">>, content |-> <<"x", "y">>, category |-> "general",
       tags |-> << <<"a", "b">> >>, ip |-> "ip1", draw |-> 2],
      [title |-> <<"c", "d">>, content |-> <<"x", "y">>, category |-> "tech",
       tags |-> << >>, ip |-> "ip2", draw |-> 3] }
\* the comment requests: the body and the address it comes from
CommentInputs == { [content |-> <<"o", "k">>, ip |-> "ip2"] }
Queries == { <<"a", "b">>, <<"x">> }
SearchLimits == {1, 20}
TagLimits == {1, 10}
PageSizes == {1, 20}
Pages == {1, 2}
SortKeys == {"timestamp", "likes", "comments"}
NoSuchId == <<0, 0>>                        \* an id no post ever gets

-----------------------------------------------------------------------------
(* Helpers of the language *)

Min(a, b) == IF a < b THEN a ELSE b
Max(a, b) == IF a > b THEN a ELSE b

\* Array.prototype.slice(from, to) with 0-based from (inclusive), to (exclusive)
slice(s, from, to) == SubSeq(s, Min(from, Len(s)) + 1, Min(to, Len(s)))

\* Array.prototype.filter
filter(s, Keep(_)) == SelectSeq(s, Keep)

\* Array.prototype.map
map(s, F(_)) == [i \in 1..Len(s) |-> F(s[i])]

\* Array.prototype.unshift: the new element goes to the front
unshift(s, e) == <<e>> \o s

\* Array.prototype.push: the new element goes to the end
push(s, e) == Append(s, e)

\* posts.find(p => p.id === id): the index of the first match, 0 for undefined
RECURSIVE findFrom(_, _, _)
findFrom(ps, id, i) ==
    IF i > Len(ps) THEN 0
    ELSE IF ps[i].id = id THEN i
    ELSE findFrom(ps, id, i + 1)
find(ps, id) == findFrom(ps, id, 1)

Range(s) == {s[i] : i \in 1..Len(s)}

RECURSIVE sum(_)
sum(s) == IF s = << >> THEN 0 ELSE Head(s) + sum(Tail(s))

\* a sort that puts equal keys in the reverse of their previous order
sortDescUnstable(keys) ==
    LET insert(seq, k) ==
            LET p == Cardinality({j \in 1..Len(seq) : keys[seq[j]] > keys[k]})
            IN  SubSeq(seq, 1, p) \o <<k>> \o SubSeq(seq, p + 1, Len(seq))
        ins[k \in 0..Len(keys)] == IF k = 0 THEN << >> ELSE insert(ins[k - 1], k)
    IN  ins[Len(keys)]

\* the order Array.prototype.sort((a, b) => key(b) - key(a)) leaves: descending
\* keys, equal keys in their previous order; the result lists indices of keys
sortDesc(keys) ==
    LET insert(seq, k) ==
            LET p == Cardinality({j \in 1..Len(seq) : keys[seq[j]] >= keys[k]})
            IN  SubSeq(seq, 1, p) \o <<k>> \o SubSeq(seq, p + 1, Len(seq))
        ins[k \in 0..Len(keys)] == IF k = 0 THEN << >> ELSE insert(ins[k - 1], k)
    IN  ins[Len(keys)]

\* Math.ceil(a / b) and Math.round(a / b) for a >= 0, b > 0
\* Math.floor for Math.ceil
floorDiv(a, b) == a \div b

ceilDiv(a, b) == (a + b - 1) \div b
roundDiv(a, b) == (2 * a + b) \div (2 * b)

\* String.prototype.toLowerCase, on the letters the inputs use
lowerOf == "A" :> "a" @@ "C" :> "c" @@ "I" :> "i" @@ "W" :> "w"
toLowerCase(str) ==
    [i \in 1..Len(str) |-> IF str[i] \in DOMAIN lowerOf THEN lowerOf[str[i]] ELSE str[i]]

\* String.prototype.trim
RECURSIVE trimStart(_)
trimStart(str) == IF str # << >> /\ Head(str) = " " THEN trimStart(Tail(str)) ELSE str
RECURSIVE trimEnd(_)
trimEnd(str) ==
    IF str # << >> /\ str[Len(str)] = " " THEN trimEnd(SubSeq(str, 1, Len(str) - 1)) ELSE str
trim(str) == trimEnd(trimStart(str))

\* String.prototype.includes
includes(str, part) ==
    \E i \in 1..(Len(str) + 1) : i + Len(part) - 1 <= Len(str) /\ SubSeq(str, i, i + Len(part) - 1) = part

-----------------------------------------------------------------------------
(* DataStore *)

\* hashIP: sha256 of ip + salt, taken as injective
hashIP(ip) == <<"sha256", ip, "anonforum-salt-2024">>

\* generateId: Date.now().toString(36) followed by the digits of Math.random()
generateId(t, r) == <<t, r>>

\* generateAnonId: `${prefix}${number}` as the pair of the two; its two draws
\* of Math.random() are rp / scale and rn / scale
prefixes ==
    <<"Anon", "Ghost", "Shadow", "Phantom", "Mystery", "Unknown",
      "Cipher", "Void", "Echo", "Raven", "Sage", "Nova", "Zen">>
generateAnonId(rp, rn, scale) ==
    <<prefixes[((rp * Len(prefixes)) \div scale) + 1],
      ((rn * 9999) \div scale) + 1000>>

\* the draws of generateAnonId in a call whose generateId drew r
prefixDraw(r) == RandomScale - 1 - r
numberDraw(r) == (r + 1) % RandomScale

\* sanitizeComment: every field but ipHash
sanitizeComment(comment) ==
    [f \in (DOMAIN comment) \ {"ipHash"} |-> comment[f]]

\* sanitizePost that spreads the post and forgets its comments
sanitizePostShallow(post) ==
    [f \in (DOMAIN post) \ {"ipHash"} |-> post[f]]

\* sanitizePost: every field but ipHash, the comments sanitized
sanitizePost(post) ==
    [f \in (DOMAIN post) \ {"ipHash"} |->
        IF f = "comments" THEN map(post.comments, sanitizeComment) ELSE post[f]]

\* the expiry test of getPosts, getPost, likePost, createComment, getComments, searchPosts
expiredForRead(post, t) == post.expiresAt < t

\* the validity test with >= for >
validAtOrEqual(post, t) == post.expiresAt >= t

\* the validity test of getStats, getCategoryStats, getTrendingTags and cleanup
validAt(post, t) == post.expiresAt > t

\* the capacity rule cutting at the wrong end: slice(1) for slice(0, maxPosts)
keepMaxPostsTail(ps) == IF Len(ps) > maxPosts THEN slice(ps, 1, Len(ps)) ELSE ps

\* createPost's capacity rule
keepMaxPosts(ps) == IF Len(ps) > maxPosts THEN slice(ps, 0, maxPosts) ELSE ps

\* the post of a createPost that stores the tags as supplied, uncut
newPostAllTags(in, ipHash, r, t1, t2) ==
    [id |-> generateId(t1, r),
     anonId |-> generateAnonId(prefixDraw(r), numberDraw(r), RandomScale),
     title |-> in.title,
     content |-> in.content,
     category |-> in.category,
     tags |-> in.tags,
     timestamp |-> t1,
     likes |-> 0,
     comments |-> << >>,
     ipHash |-> ipHash,
     expiresAt |-> t2 + maxAge]

\* the post createPost builds; the clock is read for timestamp and again for expiresAt
newPost(in, ipHash, r, t1, t2) ==
    [id |-> generateId(t1, r),
     anonId |-> generateAnonId(prefixDraw(r), numberDraw(r), RandomScale),
     title |-> in.title,
     content |-> in.content,
     category |-> in.category,
     tags |-> slice(in.tags, 0, 5),
     timestamp |-> t1,
     likes |-> 0,
     comments |-> << >>,
     ipHash |-> ipHash,
     expiresAt |-> t2 + maxAge]


\* the posts of initSampleData, with its draws d, at clock value t
samplePosts(d, t) ==
    LET data == <<
            [title |-> <<"W", "e">>, content |-> <<"x", "y">>, category |-> "general",
             tags |-> << <<"w">>, <<"r">>, <<"c">> >>, timestamp |-> t - 2 * hour],
            [title |-> <<"A", "I">>, content |-> <<"x", "y">>, category |-> "tech",
             tags |-> << <<"a", "i">>, <<"p">>, <<"f">>, <<"a">> >>, timestamp |-> t - 4 * hour] >>
    IN  [index \in 1..Len(data) |->
            [id |-> generateId(t, d.ids[index]),
             anonId |-> generateAnonId(prefixDraw(d.ids[index]), numberDraw(d.ids[index]),
                                       RandomScale),
             title |-> data[index].title,
             content |-> data[index].content,
             category |-> data[index].category,
             tags |-> data[index].tags,
             timestamp |-> data[index].timestamp,
             likes |-> ((d.likes[index] * 10) \div RandomScale) + 1,
             comments |-> IF index = 1
                          THEN << [id |-> generateId(t, d.comment),
                                   anonId |-> generateAnonId(prefixDraw(d.comment),
                                                             numberDraw(d.comment),
                                                             RandomScale),
                                   content |-> <<"o", "k">>,
                                   timestamp |-> t - 1 * hour,
                                   ipHash |-> hashIP("sample-commenter-1")] >>
                          ELSE << >>,
             ipHash |-> hashIP(<<"sample-ip-", index - 1>>),
             expiresAt |-> t + maxAge]]

\* initSampleData: nothing when the store already holds posts
initSampleData(ps, d, t) == IF Len(ps) > 0 THEN ps ELSE ps \o samplePosts(d, t)

\* the posts cleanup keeps
sweep(ps, t) == filter(ps, LAMBDA post : validAt(post, t))

\* cleanupLikedPosts that deletes the ids and leaves the emptied sets in the map
cleanupLikedPostsKeepEmpty(lp, ps) ==
    LET validPostIds == {ps[i].id : i \in 1..Len(ps)}
    IN  [h \in DOMAIN lp |-> lp[h] \cap validPostIds]

\* cleanupLikedPosts: drop the ids of posts no longer stored, then the empty sets
cleanupLikedPosts(lp, ps) ==
    LET validPostIds == {ps[i].id : i \in 1..Len(ps)}
        kept == {h \in DOMAIN lp : lp[h] \cap validPostIds # {}}
    IN  [h \in kept |-> lp[h] \cap validPostIds]

\* the ledger test made on a fresh set, new Set().has(postId), not on the stored one
hasLikedFresh(lp, ipHash, postId) == postId \in {}

\* likePost's ledger test, after likedPosts.set(ipHash, new Set()) for a new ipHash
hasLiked(lp, ipHash, postId) == ipHash \in DOMAIN lp /\ postId \in lp[ipHash]

\* likePost's ledger update: userLikes.add(postId)
addLike(lp, ipHash, postId) ==
    [h \in DOMAIN lp \cup {ipHash} |->
        IF h = ipHash
        THEN (IF h \in DOMAIN lp THEN lp[h] ELSE {}) \cup {postId}
        ELSE lp[h]]

\* the comment createComment builds
newComment(content, ipHash, r, t) ==
    [id |-> generateId(t, r), anonId |-> generateAnonId(prefixDraw(r), numberDraw(r), RandomScale),
     content |-> content, timestamp |-> t, ipHash |-> ipHash]

\* the lookup without the test of expiresAt: posts.find alone
visibleAtStored(ps, t, postId) == find(ps, postId)

\* the index of the post likePost, createComment, getPost and getComments work
\* on: the first with that id, unless it has expired; 0 when there is none
visibleAt(ps, t, postId) ==
    LET i == find(ps, postId)
    IN  IF i = 0 \/ expiredForRead(ps[i], t) THEN 0 ELSE i

Null == [null |-> TRUE]
PostNotFound == [success |-> FALSE, message |-> "Post not found"]
AlreadyLiked == [success |-> FALSE, message |-> "Already liked"]

\* getPosts
getPosts(ps, t, category, page, limit, sort) ==
    LET filtered == filter(ps, LAMBDA post :
                        /\ ~expiredForRead(post, t)
                        /\ (category # "undefined" => post.category = category))
        keys == [i \in 1..Len(filtered) |->
                    CASE sort = "likes" -> filtered[i].likes
                      [] sort = "comments" -> Len(filtered[i].comments)
                      [] OTHER -> filtered[i].timestamp]
        order == sortDesc(keys)
        sorted == [i \in 1..Len(filtered) |-> filtered[order[i]]]
        total == Len(filtered)
        totalPages == ceilDiv(total, limit)
        offset == (page - 1) * limit
        paginatedPosts == slice(sorted, offset, offset + limit)
    IN  [posts |-> map(paginatedPosts, sanitizePost),
         pagination |-> [current |-> page,
                         total |-> totalPages,
                         hasNext |-> page < totalPages,
                         hasPrev |-> page > 1,
                         totalPosts |-> total]]

\* getPost
getPost(ps, t, id) ==
    LET i == visibleAt(ps, t, id)
    IN  IF i = 0 THEN Null ELSE sanitizePost(ps[i])

\* getComments
getComments(ps, t, postId) ==
    LET i == visibleAt(ps, t, postId)
    IN  IF i = 0 THEN << >> ELSE map(ps[i].comments, sanitizeComment)

\* getCategoryStats, given the posts to count
getCategoryStats(validPosts) ==
    [c \in {validPosts[i].category : i \in 1..Len(validPosts)} |->
        Cardinality({i \in 1..Len(validPosts) : validPosts[i].category = c})]

\* getStats with memoryUsage taken from the posts it counts, not from the stored ones
getStatsOfValid(ps, t) ==
    LET validPosts == filter(ps, LAMBDA post : validAt(post, t))
        oneDayAgo == t - 24 * hour
        recentPosts == filter(validPosts, LAMBDA post : post.timestamp > oneDayAgo)
        recentIn(post) == Len(filter(post.comments, LAMBDA comment : comment.timestamp > oneDayAgo))
    IN  [totalPosts |-> Len(validPosts),
         totalComments |-> sum([i \in 1..Len(validPosts) |-> Len(validPosts[i].comments)]),
         totalLikes |-> sum([i \in 1..Len(validPosts) |-> validPosts[i].likes]),
         postsToday |-> Len(recentPosts),
         commentsToday |-> sum([i \in 1..Len(validPosts) |-> recentIn(validPosts[i])]),
         categories |-> getCategoryStats(validPosts),
         memoryUsage |-> [posts |-> Len(validPosts),
                          maxPosts |-> maxPosts,
                          usage |-> roundDiv(Len(validPosts) * 100, maxPosts)]]

\* getStats
getStats(ps, t) ==
    LET validPosts == filter(ps, LAMBDA post : validAt(post, t))
        oneDayAgo == t - 24 * hour
        recentPosts == filter(validPosts, LAMBDA post : post.timestamp > oneDayAgo)
        recentIn(post) == Len(filter(post.comments, LAMBDA comment : comment.timestamp > oneDayAgo))
    IN  [totalPosts |-> Len(validPosts),
         totalComments |-> sum([i \in 1..Len(validPosts) |-> Len(validPosts[i].comments)]),
         totalLikes |-> sum([i \in 1..Len(validPosts) |-> validPosts[i].likes]),
         postsToday |-> Len(recentPosts),
         commentsToday |-> sum([i \in 1..Len(validPosts) |-> recentIn(validPosts[i])]),
         categories |-> getCategoryStats(validPosts),
         memoryUsage |-> [posts |-> Len(ps),
                          maxPosts |-> maxPosts,
                          usage |-> roundDiv(Len(ps) * 100, maxPosts)]]

RECURSIVE concatAll(_)
concatAll(ss) == IF ss = << >> THEN << >> ELSE Head(ss) \o concatAll(Tail(ss))

\* the keys of tagCounts in the order the count pass adds them
RECURSIVE firstSeen(_, _)
firstSeen(tags, seen) ==
    IF tags = << >> THEN seen
    ELSE firstSeen(Tail(tags), IF Head(tags) \in Range(seen) THEN seen ELSE Append(seen, Head(tags)))

\* the decimal digits, and the property names that are array indices: the
\* canonical decimal form of an integer (up to nine digits here)
digits ==
    "0" :> 0 @@ "1" :> 1 @@ "2" :> 2 @@ "3" :> 3 @@ "4" :> 4 @@
    "5" :> 5 @@ "6" :> 6 @@ "7" :> 7 @@ "8" :> 8 @@ "9" :> 9
isArrayIndex(name) ==
    /\ Len(name) >= 1 /\ Len(name) <= 9
    /\ \A k \in 1..Len(name) : name[k] \in DOMAIN digits
    /\ Len(name) > 1 => name[1] # "0"
RECURSIVE toNumber(_)
toNumber(name) ==
    IF name = << >> THEN 0
    ELSE 10 * toNumber(SubSeq(name, 1, Len(name) - 1)) + digits[name[Len(name)]]

\* Object.entries(tagCounts): the keys that are array indices first, by
\* ascending value, then the other keys in the order they were added; names
\* lists the keys in the order they were added
ownKeys(names) ==
    LET indices == SelectSeq(names, isArrayIndex)
        others == SelectSeq(names, LAMBDA name : ~isArrayIndex(name))
        below(k) == Cardinality({j \in 1..Len(indices) :
                                    toNumber(indices[j]) < toNumber(indices[k])})
    IN  [i \in 1..Len(indices) |->
            indices[CHOOSE k \in 1..Len(indices) : below(k) = i - 1]] \o others

\* getTrendingTags (the tags of the inputs are no names that Object.prototype
\* defines, so tagCounts[tag] is undefined until the tag is counted)
getTrendingTags(ps, t, limit) ==
    LET validPosts == filter(ps, LAMBDA post : validAt(post, t))
        all == concatAll([i \in 1..Len(validPosts) |-> validPosts[i].tags])
        names == ownKeys(firstSeen(all, << >>))
        entries == [i \in 1..Len(names) |->
                       [tag |-> names[i],
                        count |-> Cardinality({j \in 1..Len(all) : all[j] = names[i]})]]
        order == sortDesc([i \in 1..Len(entries) |-> entries[i].count])
        sorted == [i \in 1..Len(entries) |-> entries[order[i]]]
    IN  slice(sorted, 0, limit)

\* searchPosts that compares the letters as they are, without toLowerCase
searchPostsCaseSensitive(ps, t, query, limit) ==
    IF query = << >> \/ Len(trim(query)) < 2 THEN << >>
    ELSE LET searchTerm == trim(query)
             matches == filter(ps, LAMBDA post :
                            /\ ~expiredForRead(post, t)
                            /\ \/ includes(post.title, searchTerm)
                               \/ includes(post.content, searchTerm)
                               \/ \E k \in 1..Len(post.tags) : includes(post.tags[k], searchTerm))
         IN  map(slice(matches, 0, limit), sanitizePost)

\* searchPosts looking through the stored posts, the expired ones included
searchPostsStored(ps, t, query, limit) ==
    IF query = << >> \/ Len(trim(query)) < 2 THEN << >>
    ELSE LET searchTerm == trim(toLowerCase(query))
             matches == filter(ps, LAMBDA post :
                            \/ includes(toLowerCase(post.title), searchTerm)
                            \/ includes(toLowerCase(post.content), searchTerm)
                            \/ \E k \in 1..Len(post.tags) :
                                   includes(toLowerCase(post.tags[k]), searchTerm))
         IN  map(slice(matches, 0, limit), sanitizePost)

\* searchPosts
searchPosts(ps, t, query, limit) ==
    IF query = << >> \/ Len(trim(query)) < 2 THEN << >>
    ELSE LET searchTerm == trim(toLowerCase(query))
             matches == filter(ps, LAMBDA post :
                            /\ ~expiredForRead(post, t)
                            /\ \/ includes(toLowerCase(post.title), searchTerm)
                               \/ includes(toLowerCase(post.content), searchTerm)
                               \/ \E k \in 1..Len(post.tags) :
                                      includes(toLowerCase(post.tags[k]), searchTerm))
         IN  map(slice(matches, 0, limit), sanitizePost)

\* history: the accepted likes of the posts with the ordinals in os
logOf(log, os) ==
    LET kept == {e \in BagToSet(log) : e[1] \in Range(os)}
    IN  [e \in kept |-> CopiesIn(e, log)]

-----------------------------------------------------------------------------
(* The state after construction: new DataStore(), nothing received yet *)

NoRet == [op |-> "none", at |-> 0]
NoRes == [endpoint |-> "none"]
NoCall == [pc |-> "idle"]

Init ==
    /\ phase = "starting"
    /\ now = T0
    /\ posts = << >>
    /\ likedPosts = << >>
    /\ pending = EmptyBag
    /\ ret = NoRet
    /\ ords = << >>
    /\ nMade = 0
    /\ likeLog = EmptyBag
    /\ nLikes = 0
    /\ nComments = 0
    /\ gone = {}
    /\ res = NoRes
    /\ client = NoCall
    /\ requests = << >>
    /\ windows = << >>

\* app.listen's callback: initSampleData unless NODE_ENV is production
Listen(env, d) ==
    /\ phase = "starting"
    /\ phase' = "listening"
    /\ posts' = IF env # "production" THEN initSampleData(posts, d, now) ELSE posts
    /\ ords' = [i \in 1..Len(posts') |-> Len(posts') + 1 - i]
    /\ nMade' = Len(posts')
    /\ ret' = [op |-> "listen", at |-> now]
    /\ UNCHANGED <<res, client, gone, requests, windows, now, likedPosts, pending, likeLog, nLikes, nComments>>

\* the clock moves on to a later instant
Tick(t) ==
    /\ t > now
    /\ now' = t
    /\ ret' = NoRet
    /\ res' = NoRes
    /\ UNCHANGED <<client, gone, requests, windows, phase, posts, likedPosts, pending, ords, nMade, likeLog, nLikes, nComments>>

\* createPost; t2 is the clock's second reading, for expiresAt
createPost(in, ipHash, r, t2) ==
    /\ phase = "listening"
    /\ nMade < MaxMade
    /\ t2 \in {now} \cup (Instants \cap {now + 1})
    /\ LET post == newPost(in, ipHash, r, now, t2)
       IN  /\ posts' = keepMaxPosts(<<post>> \o posts)
           /\ ords' = keepMaxPosts(<<nMade + 1>> \o ords)
           /\ nMade' = nMade + 1
           /\ likeLog' = logOf(likeLog, ords')
           /\ ret' = [op |-> "createPost", at |-> now, value |-> sanitizePost(post)]
    /\ now' = t2
    /\ UNCHANGED <<client, gone, requests, windows, phase, likedPosts, pending, nLikes, nComments>>

\* cleanup, as the timer calls it
cleanup ==
    /\ phase = "listening"
    /\ posts' = sweep(posts, now)
    /\ likedPosts' = cleanupLikedPosts(likedPosts, posts')
    /\ ords' = LET keptAt == {i \in 1..Len(posts) : validAt(posts[i], now)}
                   nth[k \in 0..Len(posts)] ==
                       IF k = 0 THEN 0
                       ELSE CHOOSE i \in keptAt : i > nth[k - 1] /\ \A j \in keptAt : j > nth[k - 1] => i <= j
               IN  [k \in 1..Cardinality(keptAt) |-> ords[nth[k]]]
    /\ likeLog' = logOf(likeLog, ords')
    /\ ret' = [op |-> "cleanup", at |-> now, value |-> Len(posts) - Len(posts')]
    /\ UNCHANGED <<res, client, gone, requests, windows, phase, now, pending, nMade, nLikes, nComments>>

\* POST /api/posts/:id/like arrives and waits in the endpoint's limiter
ReceiveLike(postId, ip) ==
    /\ phase = "listening"
    /\ BagCardinality(pending) < MaxPending
    /\ nLikes + nComments < MaxActs
    /\ pending' = pending (+) SetToBag({[postId |-> postId, ip |-> ip]})
    /\ nLikes' = nLikes + 1
    /\ ret' = NoRet
    /\ UNCHANGED <<res, client, gone, requests, windows, phase, now, posts, likedPosts, ords, nMade, likeLog, nComments>>

\* likePost(postId, userIP), from its first statement to its return; waiting
\* tells whether the request was counted in nLikes when it arrived
likePost(postId, userIP, waiting) ==
    /\ phase = "listening"
    /\ LET i == visibleAt(posts, now, postId)
           ipHash == hashIP(userIP)
           result == IF i = 0 THEN PostNotFound
                     ELSE IF hasLiked(likedPosts, ipHash, postId) THEN AlreadyLiked
                     ELSE [success |-> TRUE, likes |-> posts[i].likes + 1]
       IN  /\ ret' = [op |-> "likePost", at |-> now, postId |-> postId,
                      ipHash |-> ipHash, value |-> result]
           /\ IF result.success
              THEN /\ posts' = [posts EXCEPT ![i].likes = @ + 1]
                   /\ likedPosts' = addLike(likedPosts, ipHash, postId)
                   /\ likeLog' = likeLog (+) SetToBag({<<ords[i], ipHash>>})
                   /\ nLikes' = IF waiting THEN nLikes ELSE nLikes + 1
              ELSE /\ nLikes' = IF waiting THEN nLikes - 1 ELSE nLikes
                   /\ UNCHANGED <<posts, likedPosts, likeLog>>
    /\ UNCHANGED <<client, gone, requests, windows, phase, now, ords, nMade, nComments>>

\* the like handler takes a waiting request and runs likePost(req.params.id, req.ip)
HandleLike(req) ==
    /\ BagIn(req, pending)
    /\ pending' = pending (-) SetToBag({req})
    /\ likePost(req.postId, req.ip, TRUE)
    /\ UNCHANGED res

\* likePost called with no request waiting
LikePost(postId, userIP) ==
    /\ nLikes + nComments < MaxActs
    /\ likePost(postId, userIP, FALSE)
    /\ UNCHANGED <<pending, res>>

\* createComment
createComment(postId, content, ipHash, r) ==
    /\ phase = "listening"
    /\ nComments < MaxComments
    /\ nLikes + nComments < MaxActs
    /\ LET i == visibleAt(posts, now, postId)
           comment == newComment(content, ipHash, r, now)
       IN  IF i = 0
           THEN /\ ret' = [op |-> "createComment", at |-> now, postId |-> postId,
                           value |-> PostNotFound]
                /\ UNCHANGED <<posts, nComments>>
           ELSE /\ posts' = [posts EXCEPT ![i].comments = push(@, comment)]
                /\ nComments' = nComments + 1
                /\ ret' = [op |-> "createComment", at |-> now, postId |-> postId,
                           value |-> [success |-> TRUE, comment |-> sanitizeComment(comment)]]
    /\ UNCHANGED <<client, gone, requests, windows, phase, now, likedPosts, pending, ords, nMade, likeLog, nLikes>>

\* a read operation returns value; the store is left alone
Read(op, value) ==
    /\ phase = "listening"
    /\ ret' = [op |-> op, at |-> now, value |-> value]
    /\ UNCHANGED <<res, client, gone, requests, windows, phase, now, posts, likedPosts, pending, ords, nMade, likeLog, nLikes, nComments>>

GetPosts(category, page, limit, sort) ==
    Read("getPosts", getPosts(posts, now, category, page, limit, sort))

GetPost(id) ==
    /\ phase = "listening"
    /\ ret' = [op |-> "getPost", at |-> now, postId |-> id, value |-> getPost(posts, now, id)]
    /\ UNCHANGED <<res, client, requests, windows, phase, now, posts, likedPosts, pending, ords, nMade, likeLog, nLikes, nComments>>

GetComments(postId) ==
    /\ phase = "listening"
    /\ ret' = [op |-> "getComments", at |-> now, postId |-> postId,
               value |-> getComments(posts, now, postId)]
    /\ UNCHANGED <<res, client, gone, requests, windows, phase, now, posts, likedPosts, pending, ords, nMade, likeLog, nLikes, nComments>>

GetStats == Read("getStats", getStats(posts, now))

GetTrendingTags(limit) == Read("getTrendingTags", getTrendingTags(posts, now, limit))

SearchPosts(query, limit) == Read("searchPosts", searchPosts(posts, now, query, limit))

\* the ids a request may name: those of the stored posts, and one of no post
RequestIds == {posts[i].id : i \in 1..Len(posts)} \cup {NoSuchId}

Next ==
    \/ \E env \in NodeEnvs, d \in SampleDraws : Listen(env, d)
    \/ \E t \in Instants : Tick(t)
    \/ \E in \in PostInputs, t2 \in Instants :
          createPost(in, hashIP(in.ip), in.draw, t2) /\ UNCHANGED res
    \/ cleanup
    \/ \E id \in RequestIds, ip \in IPs : LikePost(id, ip)
    \/ \E id \in RequestIds, in \in CommentInputs, r \in IdDraws :
          createComment(id, in.content, hashIP(in.ip), r) /\ UNCHANGED res
    \/ \E category \in ListCategories, page \in Pages, limit \in PageSizes, sort \in SortKeys :
          GetPosts(category, page, limit, sort)
    \/ \E id \in RequestIds : GetPost(id) /\ UNCHANGED gone
    \/ \E id \in RequestIds : GetComments(id)
    \/ GetStats
    \/ \E limit \in TagLimits : GetTrendingTags(limit)
    \/ \E query \in Queries, limit \in SearchLimits : SearchPosts(query, limit)

Spec == Init /\ [][Next]_vars

\* history: the ids noted once getPost(id) has returned this value
noted(ids, id, value) ==
    IF value = Null /\ find(posts, id) # 0 THEN ids \cup {id} ELSE ids

\* the ids a request may name when the null answers of getPost are noted:
\* those getPost has answered null for as well
ExpiryIds == RequestIds \cup gone

\* the store under its operations on posts by id, its listing and its search,
\* the null answers of getPost being noted
NextExpiry ==
    \/ \E env \in NodeEnvs, d \in SampleDraws : Listen(env, d)
    \/ \E t \in Instants : Tick(t)
    \/ \E in \in PostInputs, t2 \in Instants :
          createPost(in, hashIP(in.ip), in.draw, t2) /\ UNCHANGED res
    \/ cleanup
    \/ \E id \in ExpiryIds, ip \in IPs : LikePost(id, ip)
    \/ \E id \in ExpiryIds, in \in CommentInputs, r \in IdDraws :
          createComment(id, in.content, hashIP(in.ip), r) /\ UNCHANGED res
    \/ GetPosts("undefined", 1, 20, "timestamp")
    \/ \E id \in ExpiryIds : GetPost(id) /\ gone' = noted(gone, id, ret'.value)
    \/ \E id \in ExpiryIds : GetComments(id)
    \/ SearchPosts(<<"x", "y">>, 20)

SpecExpiry == Init /\ [][NextExpiry]_vars

\* the instants of a run that goes on until every post built in it has
\* expired: those of Instants, and the expiry of a post built at the last of
\* them with the millisecond after it
LiveInstants == Instants \cup {T0 + 2 * maxAge + 1, T0 + 2 * maxAge + 2}

\* history: the ordinals of the posts cleanup's filter keeps
RECURSIVE keptOrds(_, _, _)
keptOrds(os, ps, t) ==
    IF ps = << >> THEN << >>
    ELSE (IF validAt(Head(ps), t) THEN <<Head(os)>> ELSE << >>)
            \o keptOrds(Tail(os), Tail(ps), t)

\* the cleanup job without its try and catch: the error ends the process
uncaught(ph) == "exited"

\* the cleanup job's catch: the error is logged and the process goes on
caught(ph) == ph

\* a run of the cleanup job in which dataStore.cleanup() throws, before its
\* filter (mid false) or between the filter and cleanupLikedPosts (mid true)
CleanupThrows(mid) ==
    /\ phase = "listening"
    /\ IF mid
       THEN /\ posts' = sweep(posts, now)
            /\ ords' = keptOrds(ords, posts, now)
            /\ likeLog' = logOf(likeLog, ords')
       ELSE UNCHANGED <<posts, ords, likeLog>>
    /\ phase' = caught(phase)
    /\ ret' = [op |-> "cleanupJob", at |-> now, error |-> TRUE]
    /\ UNCHANGED <<res, client, gone, requests, windows, now, likedPosts, pending, nMade, nLikes, nComments>>

\* the store with the cleanup job on its timer while the clock goes on; the
\* posts, those of initSampleData included, are built at the instants of
\* Instants, so that each expires within the instants of the run
NextCleanup ==
    \/ \E env \in NodeEnvs, d \in SampleDraws : now \in Instants /\ Listen(env, d)
    \/ \E t \in LiveInstants : Tick(t)
    \/ \E in \in PostInputs, t2 \in Instants :
          now \in Instants /\ createPost(in, hashIP(in.ip), in.draw, t2) /\ UNCHANGED res
    \/ cleanup
    \/ \E mid \in BOOLEAN : CleanupThrows(mid)
    \/ \E id \in RequestIds, ip \in IPs : LikePost(id, ip)

\* the clock keeps advancing, and the timer keeps running the cleanup job
SpecCleanup ==
    /\ Init
    /\ [][NextCleanup]_vars
    /\ WF_vars(\E t \in LiveInstants : Tick(t))
    /\ WF_vars(cleanup)

\* createPost called with no, five, six and seven tags; the titles tell the
\* calls apart
CreateInputs ==
    { [title |-> <<"n", "o">>, content |-> <<"x", "y">>, category |-> "general",
       tags |-> << >>, ip |-> "ip1", draw |-> 1],
      [title |-> <<"V">>, content |-> <<"x", "y">>, category |-> "tech",
       tags |-> << <<"a">>, <<"b">>, <<"c">>, <<"d">>, <<"e">> >>, ip |-> "ip1", draw |-> 2],
      [title |-> <<"V", "I">>, content |-> <<"x", "y">>, category |-> "tech",
       tags |-> << <<"a">>, <<"b">>, <<"c">>, <<"d">>, <<"e">>, <<"f">> >>,
       ip |-> "ip2", draw |-> 3],
      [title |-> <<"V", "I", "I">>, content |-> <<"x", "y">>, category |-> "random",
       tags |-> << <<"g">>, <<"f">>, <<"e">>, <<"d">>, <<"c">>, <<"b">>, <<"a">> >>,
       ip |-> "ip2", draw |-> 0] }

\* the store under createPost calls alone, with the cleanup timer
NextCreate ==
    \/ \E env \in NodeEnvs, d \in SampleDraws : Listen(env, d)
    \/ \E t \in Instants : Tick(t)
    \/ \E in \in CreateInputs, t2 \in Instants :
          createPost(in, hashIP(in.ip), in.draw, t2) /\ UNCHANGED res
    \/ cleanup

SpecCreate == Init /\ [][NextCreate]_vars

\* createPost called with tags that are numbers, written in digits
TrendingInputs ==
    { [title |-> <<"n">>, content |-> <<"x", "y">>, category |-> "general",
       tags |-> << <<"n">>, <<"7">> >>, ip |-> "ip1", draw |-> 1],
      [title |-> <<"m">>, content |-> <<"x", "y">>, category |-> "tech",
       tags |-> << <<"1", "0">>, <<"n">>, <<"7">>, <<"0", "7">> >>, ip |-> "ip2", draw |-> 2] }

\* the store under createPost and getTrendingTags calls, with the cleanup timer
NextTrending ==
    \/ \E env \in NodeEnvs, d \in SampleDraws : Listen(env, d)
    \/ \E t \in Instants : Tick(t)
    \/ \E in \in TrendingInputs, t2 \in Instants :
          createPost(in, hashIP(in.ip), in.draw, t2) /\ UNCHANGED res
    \/ cleanup
    \/ \E limit \in TagLimits : GetTrendingTags(limit)

SpecTrending == Init /\ [][NextTrending]_vars

\* generateAnonId is called; Math.random() returns rp / AliasScale, then
\* rn / AliasScale
GenerateAnonId(rp, rn) ==
    /\ ret' = [op |-> "generateAnonId", at |-> now, value |-> generateAnonId(rp, rn, AliasScale)]
    /\ UNCHANGED <<res, client, gone, requests, windows, phase, now, posts, likedPosts, pending, ords,
                   nMade, likeLog, nLikes, nComments>>

NextAlias == \E rp, rn \in 0..(AliasScale - 1) : GenerateAnonId(rp, rn)

SpecAlias == Init /\ [][NextAlias]_vars

\* the server: the write handlers, with the like requests waiting in the
\* endpoint's limiter before their handler runs, and the cleanup timer
NextServer ==
    \/ \E env \in NodeEnvs, d \in SampleDraws : Listen(env, d)
    \/ \E t \in Instants : Tick(t)
    \/ \E in \in PostInputs, t2 \in Instants :
          createPost(in, hashIP(in.ip), in.draw, t2) /\ UNCHANGED res
    \/ cleanup
    \/ \E id \in RequestIds, ip \in IPs : ReceiveLike(id, ip)
    \/ \E req \in BagToSet(pending) : HandleLike(req)
    \/ \E id \in RequestIds, in \in CommentInputs, r \in IdDraws :
          createComment(id, in.content, hashIP(in.ip), r) /\ UNCHANGED res

SpecServer == Init /\ [][NextServer]_vars

-----------------------------------------------------------------------------
(* createRateLimit(windowMs, max, message): one limiter, its requests Map   *)
(* and the middleware it returns.  The window is 2 seconds and the cap 2,   *)
(* so that retryAfter, in seconds, takes several values.                    *)

windowMs == 2000
max == 2
message == "Too many requests"

\* the instants at which the limiter is called: the start, the millisecond
\* after it, and for the windows opened at these the last instant inside
\* the window and the first after it
LimiterInstants ==
    {T0, T0 + 1, T0 + windowMs, T0 + windowMs + 1, T0 + 2 * windowMs + 1, T0 + 2 * windowMs + 2}

NextCalled == [next |-> TRUE]

\* "Clean old entries"
cleanOld(reqs, t) ==
    [ip \in {k \in DOMAIN reqs : ~(t - reqs[k].resetTime > windowMs)} |-> reqs[ip]]

\* the middleware with a sliding window: every request passed on moves resetTime
createRateLimitSliding(reqs, key, t) ==
    LET cleaned == cleanOld(reqs, t)
    IN  IF key \notin DOMAIN cleaned \/ t - cleaned[key].resetTime > windowMs
        THEN [requests |-> [k \in DOMAIN cleaned \cup {key} |->
                               IF k = key THEN [count |-> 1, resetTime |-> t] ELSE cleaned[k]],
              response |-> NextCalled]
        ELSE IF cleaned[key].count >= max
        THEN [requests |-> cleaned,
              response |-> [status |-> 429, error |-> message,
                            retryAfter |-> ceilDiv(windowMs - (t - cleaned[key].resetTime), 1000)]]
        ELSE [requests |-> [cleaned EXCEPT ![key] = [count |-> @.count + 1, resetTime |-> t]],
              response |-> NextCalled]

\* the middleware rejecting only when the count is over max
createRateLimitOverMax(reqs, key, t) ==
    LET cleaned == cleanOld(reqs, t)
    IN  IF key \notin DOMAIN cleaned
        THEN [requests |-> [k \in DOMAIN cleaned \cup {key} |->
                               IF k = key THEN [count |-> 1, resetTime |-> t] ELSE cleaned[k]],
              response |-> NextCalled]
        ELSE LET data == cleaned[key]
             IN  IF t - data.resetTime > windowMs
                 THEN [requests |-> [cleaned EXCEPT ![key] = [count |-> 1, resetTime |-> t]],
                       response |-> NextCalled]
                 ELSE IF data.count > max
                 THEN [requests |-> cleaned,
                       response |-> [status |-> 429, error |-> message,
                                     retryAfter |-> ceilDiv(windowMs - (t - data.resetTime), 1000)]]
                 ELSE [requests |-> [cleaned EXCEPT ![key].count = @ + 1],
                       response |-> NextCalled]

\* the middleware restarting the window of a request it rejects
createRateLimitPenalty(reqs, key, t) ==
    LET cleaned == cleanOld(reqs, t)
    IN  IF key \notin DOMAIN cleaned
        THEN [requests |-> [k \in DOMAIN cleaned \cup {key} |->
                               IF k = key THEN [count |-> 1, resetTime |-> t] ELSE cleaned[k]],
              response |-> NextCalled]
        ELSE LET data == cleaned[key]
             IN  IF t - data.resetTime > windowMs
                 THEN [requests |-> [cleaned EXCEPT ![key] = [count |-> 1, resetTime |-> t]],
                       response |-> NextCalled]
                 ELSE IF data.count >= max
                 THEN [requests |-> [cleaned EXCEPT ![key].resetTime = t],
                       response |-> [status |-> 429, error |-> message,
                                     retryAfter |-> ceilDiv(windowMs - (t - data.resetTime), 1000)]]
                 ELSE [requests |-> [cleaned EXCEPT ![key].count = @ + 1],
                       response |-> NextCalled]

\* the middleware createRateLimit returns, for a request of key at time t:
\* the Map it leaves and what it answers
createRateLimit(reqs, key, t) ==
    LET cleaned == cleanOld(reqs, t)
    IN  IF key \notin DOMAIN cleaned
        THEN [requests |-> [k \in DOMAIN cleaned \cup {key} |->
                               IF k = key THEN [count |-> 1, resetTime |-> t] ELSE cleaned[k]],
              response |-> NextCalled]
        ELSE LET data == cleaned[key]
             IN  IF t - data.resetTime > windowMs
                 THEN [requests |-> [cleaned EXCEPT ![key] = [count |-> 1, resetTime |-> t]],
                       response |-> NextCalled]
                 ELSE IF data.count >= max
                 THEN [requests |-> cleaned,
                       response |-> [status |-> 429, error |-> message,
                                     retryAfter |-> ceilDiv(windowMs - (t - data.resetTime), 1000)]]
                 ELSE [requests |-> [cleaned EXCEPT ![key].count = @ + 1],
                       response |-> NextCalled]

\* history: the key's window after its request at time t; the request opens a
\* window when the key has none or windowMs has elapsed since its start
windowAfter(ws, key, t, passed) ==
    LET n == IF passed THEN 1 ELSE 0
    IN  IF key \notin DOMAIN ws \/ t - ws[key].start > windowMs
        THEN [k \in DOMAIN ws \cup {key} |->
                 IF k = key
                 THEN [start |-> t, accepted |-> n,
                       nth |-> IF key \in DOMAIN ws THEN ws[key].nth + 1 ELSE 1]
                 ELSE ws[k]]
        ELSE [ws EXCEPT ![key].accepted = @ + n]

\* a request of ip goes through the limiter's middleware
RateLimit(ip) ==
    /\ LET key == hashIP(ip)
           out == createRateLimit(requests, key, now)
       IN  /\ requests' = out.requests
           /\ windows' = windowAfter(windows, key, now, out.response = NextCalled)
           /\ ret' = [op |-> "rateLimit", at |-> now, key |-> key, value |-> out.response]
    /\ UNCHANGED <<res, client, gone, phase, now, posts, likedPosts, pending, ords, nMade, likeLog, nLikes, nComments>>

NextLimiter ==
    \/ \E t \in LimiterInstants : Tick(t)
    \/ \E ip \in IPs : RateLimit(ip)

SpecLimiter == Init /\ [][NextLimiter]_vars

-----------------------------------------------------------------------------
(* The server's write endpoints and the middleware in front of them.  A    *)
(* JSON value of a request is [type, v]: a string (v its characters), a    *)
(* word (a string of letters only, kept whole, as the category names are), *)
(* an array (v its elements) or undefined.  The texts of the requests use  *)
(* letters, ":" and blanks: they hold no "<", "=" or "(".                  *)

Undefined == [type |-> "undefined"]
JsString(str) == [type |-> "string", v |-> str]
JsWord(w) == [type |-> "word", v |-> w]
JsArray(elems) == [type |-> "array", v |-> elems]

\* a text of n characters c
Rep(n, c) == [i \in 1..n |-> c]

\* !x of JavaScript
falsy(x) == x.type = "undefined" \/ (x.type = "string" /\ x.v = << >>)

\* str.replace(/pat/gi, '') for a literal pat: one pass from the left
RECURSIVE removeAll(_, _)
removeAll(str, pat) ==
    IF Len(str) < Len(pat) THEN str
    ELSE IF toLowerCase(SubSeq(str, 1, Len(pat))) = pat
         THEN removeAll(SubSeq(str, Len(pat) + 1, Len(str)), pat)
         ELSE <<Head(str)>> \o removeAll(Tail(str), pat)

kwJavascript == <<"j", "a", "v", "a", "s", "c", "r", "i", "p", "t", ":">>
kwData == <<"d", "a", "t", "a", ":">>
kwVbscript == <<"v", "b", "s", "c", "r", "i", "p", "t", ":">>

\* sanitizeObject's chain of replace() and trim() on one string; the script
\* tag and event handler patterns need "<" or "=" to match
sanitizeString(str) ==
    trim(removeAll(removeAll(removeAll(str, kwJavascript), kwData), kwVbscript))

\* sanitizeObject on a value of the body, its array elements included
sanitizeValue(x) ==
    IF x.type = "string" THEN JsString(sanitizeString(x.v))
    ELSE IF x.type = "array"
         THEN JsArray([i \in 1..Len(x.v) |->
                          IF x.v[i].type = "string"
                          THEN JsString(sanitizeString(x.v[i].v))
                          ELSE x.v[i]])
         ELSE x

\* sanitizeInput on req.body
sanitizeInput(body) == [f \in DOMAIN body |-> sanitizeValue(body[f])]

\* /w1\s+w2/gi.test(str)
matchesGap(str, w1, w2) ==
    \E i \in 1..(Len(str) - Len(w1) - Len(w2)) :
        /\ toLowerCase(SubSeq(str, i, i + Len(w1) - 1)) = w1
        /\ \E n \in 1..(Len(str) - Len(w1) - Len(w2) - i + 1) :
              /\ \A k \in (i + Len(w1))..(i + Len(w1) + n - 1) : str[k] = " "
              /\ toLowerCase(SubSeq(str, i + Len(w1) + n, i + Len(w1) + n + Len(w2) - 1)) = w2

\* the suspiciousPatterns that need no "<" or "(" to match
suspiciousPatterns ==
    << << <<"u", "n", "i", "o", "n">>, <<"s", "e", "l", "e", "c", "t">> >>,
       << <<"d", "r", "o", "p">>, <<"t", "a", "b", "l", "e">> >>,
       << <<"i", "n", "s", "e", "r", "t">>, <<"i", "n", "t", "o">> >>,
       << <<"d", "e", "l", "e", "t", "e">>, <<"f", "r", "o", "m">> >> >>

suspiciousString(str) ==
    \E k \in 1..Len(suspiciousPatterns) :
        matchesGap(str, suspiciousPatterns[k][1], suspiciousPatterns[k][2])

\* checkSuspicious on req.body
checkSuspicious(body) ==
    \E f \in DOMAIN body :
        \/ body[f].type = "string" /\ suspiciousString(body[f].v)
        \/ body[f].type = "array" /\
              \E i \in 1..Len(body[f].v) :
                  body[f].v[i].type = "string" /\ suspiciousString(body[f].v[i].v)

\* the middleware app.use('/api', ...) puts in front of every endpoint, and
\* the limiter each write endpoint adds, in the order they run
apiMiddleware == <<"globalLimiter", "sanitizeInput", "validateInput">>
postMiddleware == apiMiddleware \o <<"postLimiter">>
commentMiddleware == apiMiddleware \o <<"commentLimiter">>
likeMiddleware == apiMiddleware \o <<"likeLimiter">>

\* what the middleware in front of a handler does with a request: the
\* middleware that call next(), the body they leave, and the answer of the
\* one that does not; global and own tell whether the two limiters of
\* express-rate-limit let the request through
throughMiddleware(chain, body, global, own) ==
    LET clean == sanitizeInput(body)
    IN  IF ~global
        THEN [passed |-> SubSeq(chain, 1, 0), body |-> body,
              answer |-> [status |-> 429]]
        ELSE IF checkSuspicious(clean)
        THEN [passed |-> SubSeq(chain, 1, 2), body |-> clean,
              answer |-> [status |-> 403, error |-> "Suspicious activity detected"]]
        ELSE IF ~own
        THEN [passed |-> SubSeq(chain, 1, 3), body |-> clean,
              answer |-> [status |-> 429]]
        ELSE [passed |-> chain, body |-> clean, answer |-> NextCalled]

validCategories == {"general", "tech", "crypto", "society", "confession", "question", "random"}

\* x.length of JavaScript, for the values with a length; none otherwise
hasLength(x) == x.type \in {"string", "array"}

\* POST /api/posts: the handler's validation; "ok", or the answer it sends;
\* a title or content that is no string passes the length tests and fails
\* at trim(), which the handler's catch answers with 500
postsValidation(body) ==
    LET title == body.title
        content == body.content
        category == body.category
    IN  IF falsy(title) \/ falsy(content) \/ falsy(category)
        THEN [status |-> 400, error |-> "Title, content, and category are required"]
        ELSE IF hasLength(title) /\ (Len(title.v) < 3 \/ Len(title.v) > 200)
        THEN [status |-> 400, error |-> "Title must be 3-200 characters"]
        ELSE IF hasLength(content) /\ (Len(content.v) < 10 \/ Len(content.v) > 2000)
        THEN [status |-> 400, error |-> "Content must be 10-2000 characters"]
        ELSE IF ~(category.type = "word" /\ category.v \in validCategories)
        THEN [status |-> 400, error |-> "Invalid category"]
        ELSE IF title.type # "string" \/ content.type # "string"
        THEN [status |-> 500, error |-> "Failed to create post"]
        ELSE NextCalled

\* POST /api/posts: postData
postData(body, ip) ==
    [title |-> trim(body.title.v),
     content |-> trim(body.content.v),
     category |-> body.category.v,
     tags |-> IF body.tags.type = "array"
              THEN LET kept == slice(body.tags.v, 0, 5)
                   IN  [i \in 1..Len(kept) |-> kept[i].v]
              ELSE << >>,
     ipHash |-> hashIP(ip)]

\* POST /api/posts/:id/comments: the handler's validation
commentsValidation(body) ==
    LET content == body.content
    IN  IF falsy(content) \/ (content.type = "string" /\ Len(trim(content.v)) < 1)
        THEN [status |-> 400, error |-> "Comment content is required"]
        ELSE IF content.type # "string"
        THEN [status |-> 500, error |-> "Failed to create comment"]
        ELSE IF Len(content.v) > 1000
        THEN [status |-> 400, error |-> "Comment must be under 1000 characters"]
        ELSE NextCalled

\* the bodies of the requests to POST /api/posts: one with a spam phrase,
\* six tags and a first tag of 51 characters; one whose title shrinks under
\* sanitizeInput; one with a suspicious pattern; one with too short a title
PostBodies ==
    { [title |-> JsString(<<"a", "b", "c">>),
       content |-> JsString(<<"c", "l", "i", "c", "k", " ", "h", "e", "r", "e">>),
       category |-> JsWord("general"),
       tags |-> JsArray(<<JsString(Rep(51, "a")), JsString(<<"b">>), JsString(<<"c">>),
                          JsString(<<"d">>), JsString(<<"e">>), JsString(<<"f">>)>>)],
      [title |-> JsString(<<"d", "a", "t", "a", ":", "a", "b", "c", " ">>),
       content |-> JsString(Rep(10, "x")),
       category |-> JsWord("tech"),
       tags |-> Undefined],
      [title |-> JsString(<<"a", "b", "c">>),
       content |-> JsString(<<"d", "r", "o", "p", " ", " ", "t", "a", "b", "l", "e">>),
       category |-> JsWord("general"),
       tags |-> JsArray(<< >>)],
      [title |-> JsString(<<"H", "i">>),
       content |-> JsString(Rep(10, "x")),
       category |-> JsWord("general"),
       tags |-> Undefined] }

CommentBodies ==
    { [content |-> JsString(<<"o", "k", " ">>)],
      [content |-> JsString(<<" ">>)] }

NoBody == [f \in {} |-> Undefined]

\* the variables of the DataStore and their history
storeVars == <<posts, likedPosts, ret, ords, nMade, likeLog, nLikes, nComments>>

\* POST /api/posts, from the first middleware to the handler's answer
ApiCreatePost(body, ip, global, own, r, t2) ==
    /\ phase = "listening"
    /\ LET mw == throughMiddleware(postMiddleware, body, global, own)
           answer == IF mw.answer = NextCalled THEN postsValidation(mw.body) ELSE mw.answer
       IN  IF answer = NextCalled
           THEN /\ createPost(postData(mw.body, ip), postData(mw.body, ip).ipHash, r, t2)
                /\ res' = [endpoint |-> "POST /api/posts", passed |-> mw.passed,
                           storeCalled |-> TRUE, status |-> 201,
                           body |-> [success |-> TRUE, post |-> ret'.value]]
           ELSE /\ res' = [endpoint |-> "POST /api/posts", passed |-> mw.passed,
                           storeCalled |-> FALSE, status |-> answer.status]
                /\ UNCHANGED storeVars
                /\ UNCHANGED <<phase, now, pending, client, gone, requests, windows>>

\* POST /api/posts/:id/comments
ApiCreateComment(id, body, ip, global, own, r) ==
    /\ phase = "listening"
    /\ LET mw == throughMiddleware(commentMiddleware, body, global, own)
           answer == IF mw.answer = NextCalled THEN commentsValidation(mw.body) ELSE mw.answer
       IN  IF answer = NextCalled
           THEN /\ createComment(id, trim(mw.body.content.v), hashIP(ip), r)
                /\ res' = IF ret'.value.success
                          THEN [endpoint |-> "POST /api/posts/:id/comments", passed |-> mw.passed,
                                storeCalled |-> TRUE, status |-> 201,
                                body |-> [success |-> TRUE, comment |-> ret'.value.comment]]
                          ELSE [endpoint |-> "POST /api/posts/:id/comments", passed |-> mw.passed,
                                storeCalled |-> TRUE, status |-> 404,
                                body |-> [error |-> ret'.value.message]]
           ELSE /\ res' = [endpoint |-> "POST /api/posts/:id/comments", passed |-> mw.passed,
                           storeCalled |-> FALSE, status |-> answer.status]
                /\ UNCHANGED storeVars
                /\ UNCHANGED <<phase, now, pending, client, gone, requests, windows>>

\* POST /api/posts/:id/like
ApiLike(id, ip, global, own) ==
    /\ phase = "listening"
    /\ LET mw == throughMiddleware(likeMiddleware, NoBody, global, own)
       IN  IF mw.answer = NextCalled
           THEN /\ nLikes + nComments < MaxActs
                /\ likePost(id, ip, FALSE)
                /\ UNCHANGED pending
                /\ res' = IF ret'.value.success
                          THEN [endpoint |-> "POST /api/posts/:id/like", passed |-> mw.passed,
                                storeCalled |-> TRUE, status |-> 200,
                                body |-> [success |-> TRUE, likes |-> ret'.value.likes]]
                          ELSE [endpoint |-> "POST /api/posts/:id/like", passed |-> mw.passed,
                                storeCalled |-> TRUE, status |-> 400,
                                body |-> [error |-> ret'.value.message]]
           ELSE /\ res' = [endpoint |-> "POST /api/posts/:id/like", passed |-> mw.passed,
                           storeCalled |-> FALSE, status |-> mw.answer.status]
                /\ UNCHANGED storeVars
                /\ UNCHANGED <<phase, now, pending, client, gone, requests, windows>>

\* the address the requests to the endpoints come from
ApiIPs == {"ip1"}

NextApi ==
    \/ \E env \in NodeEnvs, d \in SampleDraws : Listen(env, d)
    \/ \E body \in PostBodies, ip \in ApiIPs, global \in BOOLEAN, own \in BOOLEAN,
          r \in IdDraws, t2 \in Instants :
          ApiCreatePost(body, ip, global, own, r, t2)
    \/ \E id \in RequestIds, body \in CommentBodies, ip \in ApiIPs, global \in BOOLEAN,
          own \in BOOLEAN, r \in IdDraws :
          ApiCreateComment(id, body, ip, global, own, r)
    \/ \E id \in RequestIds, ip \in ApiIPs, global \in BOOLEAN, own \in BOOLEAN :
          ApiLike(id, ip, global, own)

SpecApi == Init /\ [][NextApi]_vars

-----------------------------------------------------------------------------
(* validatePostData, the middleware of the security module *)

\* Title validation: the errors it pushes
titleErrors(title) ==
    IF falsy(title) \/ title.type # "string" THEN <<"Title is required">>
    ELSE IF Len(trim(title.v)) < 3 THEN <<"Title must be at least 3 characters">>
    ELSE IF Len(trim(title.v)) > 200 THEN <<"Title cannot exceed 200 characters">>
    ELSE << >>

\* Content validation
contentErrors(content) ==
    IF falsy(content) \/ content.type # "string" THEN <<"Content is required">>
    ELSE IF Len(trim(content.v)) < 10 THEN <<"Content must be at least 10 characters">>
    ELSE IF Len(trim(content.v)) > 2000 THEN <<"Content cannot exceed 2000 characters">>
    ELSE << >>

\* Category validation: validCategories.includes(category) compares with ===
categoryErrors(category) ==
    IF falsy(category) \/ ~(category.type = "word" /\ category.v \in validCategories)
    THEN <<"Valid category is required">>
    ELSE << >>

\* Tags validation: the loop stops at the first tag it refuses
tagsErrors(tags) ==
    IF ~falsy(tags) /\ tags.type = "array"
    THEN (IF Len(tags.v) > 5 THEN <<"Maximum 5 tags allowed">> ELSE << >>)
         \o (IF \E k \in 1..Len(tags.v) : tags.v[k].type # "string" \/ Len(tags.v[k].v) > 50
             THEN <<"Each tag must be a string with maximum 50 characters">>
             ELSE << >>)
    ELSE << >>

\* the answer for a list of errors
validationAnswer(errors) ==
    IF Len(errors) > 0
    THEN [status |-> 400, error |-> "Validation failed", details |-> errors]
    ELSE NextCalled

\* validatePostData that answers with the first error alone
validatePostDataFirstError(body) ==
    LET errors == titleErrors(body.title) \o contentErrors(body.content)
                    \o categoryErrors(body.category) \o tagsErrors(body.tags)
    IN  validationAnswer(SubSeq(errors, 1, Min(1, Len(errors))))

\* validatePostData: next() is called, or the answer is sent
validatePostData(body) ==
    validationAnswer(titleErrors(body.title) \o contentErrors(body.content)
                        \o categoryErrors(body.category) \o tagsErrors(body.tags))

\* the fields of the bodies validatePostData is given
ValidateTitles ==
    { Undefined, JsString(<< >>), JsArray(<<JsString(Rep(4, "t"))>>),
      JsString(<<"H", "i">>), JsString(<<" ", "H", "i", " ", " ">>),
      JsString(<<" ", "a", "b", "c", " ">>), JsString(Rep(11, "t")),
      JsString(Rep(200, "t")), JsString(<<" ">> \o Rep(200, "t") \o <<" ">>),
      JsString(Rep(201, "t")) }
ValidateContents ==
    { Undefined, JsString(Rep(9, "x")), JsString(Rep(9, "x") \o <<" ">>),
      JsString(Rep(10, "x")), JsString(Rep(2000, "x")), JsString(Rep(2001, "x")) }
ValidateCategories == { Undefined, JsWord("general"), JsWord("random"), JsWord("sports") }
ValidateTags ==
    { Undefined, JsString(<<"a">>), JsArray(<< >>),
      JsArray([i \in 1..5 |-> JsString(Rep(50, "a"))]),
      JsArray([i \in 1..6 |-> JsString(<<"a">>)]),
      JsArray(<<JsString(<<"a">>), JsString(Rep(51, "a")), JsString(Rep(51, "b"))>>),
      JsArray(<<JsString(<<"a">>), JsArray(<< >>)>>),
      JsArray([i \in 1..6 |-> JsString(Rep(51, "a"))]) }
\* every title with every content, and every category with every tags, the
\* other two fields being in order or refused
ValidateBodies ==
    [title : ValidateTitles, content : ValidateContents,
     category : {JsWord("general")}, tags : {Undefined}]
    \cup [title : {JsString(<<"H", "i">>), JsString(Rep(11, "t"))},
          content : {Undefined, JsString(Rep(10, "x"))},
          category : ValidateCategories, tags : ValidateTags]

\* a request with this body reaches validatePostData
ValidatePostData(body) ==
    /\ ret' = [op |-> "validatePostData", at |-> now, body |-> body,
               value |-> validatePostData(body)]
    /\ UNCHANGED <<res, client, gone, requests, windows, phase, now, posts, likedPosts, pending, ords,
                   nMade, likeLog, nLikes, nComments>>

NextValidate == \E body \in ValidateBodies : ValidatePostData(body)

SpecValidate == Init /\ [][NextValidate]_vars

-----------------------------------------------------------------------------
(* APIClient of the browser: request and requestWithRetry *)

\* the answers fetch can give to one request: a JSON answer with its status
\* and the error field of its body, an
\* answer that is not JSON, an abort by the timeout, a network failure; a
\* body without error field counts as one with an empty error, which
\* data.error || ... treats alike
NoField == << >>

\* the texts of the answers and of the messages, character by character
texts ==
    [ ok |->
        <<"O", "K">>,
      badRequest |->
        <<"B", "a", "d", " ", "R", "e", "q", "u", "e", "s", "t">>,
      validationFailed |->
        <<"V", "a", "l", "i", "d", "a", "t", "i", "o", "n", " ", "f",
          "a", "i", "l", "e", "d">>,
      notFound |->
        <<"N", "o", "t", " ", "F", "o", "u", "n", "d">>,
      postNotFound |->
        <<"P", "o", "s", "t", " ", "n", "o", "t", " ", "f", "o", "u",
          "n", "d">>,
      tooManyRequests |->
        <<"T", "o", "o", " ", "M", "a", "n", "y", " ", "R", "e", "q",
          "u", "e", "s", "t", "s">>,
      tooMany |->
        <<"T", "o", "o", " ", "m", "a", "n", "y", " ", "r", "e", "q",
          "u", "e", "s", "t", "s">>,
      internalServerError |->
        <<"I", "n", "t", "e", "r", "n", "a", "l", " ", "S", "e", "r",
          "v", "e", "r", " ", "E", "r", "r", "o", "r">>,
      failedToCreatePost |->
        <<"F", "a", "i", "l", "e", "d", " ", "t", "o", " ", "c", "r",
          "e", "a", "t", "e", " ", "p", "o", "s", "t">>,
      badGateway |->
        <<"B", "a", "d", " ", "G", "a", "t", "e", "w", "a", "y">>,
      requestTimeout |->
        <<"R", "e", "q", "u", "e", "s", "t", " ", "t", "i", "m", "e",
          "o", "u", "t", " ", "-", " ", "p", "l", "e", "a", "s", "e",
          " ", "c", "h", "e", "c", "k", " ", "y", "o", "u", "r", " ",
          "c", "o", "n", "n", "e", "c", "t", "i", "o", "n">>,
      cannotConnect |->
        <<"C", "a", "n", "n", "o", "t", " ", "c", "o", "n", "n", "e",
          "c", "t", " ", "t", "o", " ", "s", "e", "r", "v", "e", "r",
          " ", "-", " ", "p", "l", "e", "a", "s", "e", " ", "t", "r",
          "y", " ", "a", "g", "a", "i", "n", " ", "l", "a", "t", "e",
          "r">>,
      serverReturned |->
        <<"S", "e", "r", "v", "e", "r", " ", "r", "e", "t", "u", "r",
          "n", "e", "d", " ">>,
      hTTP |->
        <<"H", "T", "T", "P", " ">> ]

Answers ==
    { [kind |-> "json", status |-> 200, statusText |-> texts.ok, error |-> NoField],
      [kind |-> "json", status |-> 400, statusText |-> texts.badRequest, error |-> texts.validationFailed],
      [kind |-> "json", status |-> 404, statusText |-> texts.notFound, error |-> texts.postNotFound],
      [kind |-> "json", status |-> 404, statusText |-> texts.notFound, error |-> NoField],
      [kind |-> "json", status |-> 429, statusText |-> texts.tooManyRequests, error |-> texts.tooMany],
      [kind |-> "json", status |-> 500, statusText |-> texts.internalServerError, error |-> texts.failedToCreatePost],
      [kind |-> "other", status |-> 404, statusText |-> texts.notFound, error |-> NoField],
      [kind |-> "other", status |-> 502, statusText |-> texts.badGateway, error |-> NoField],
      [kind |-> "abort", status |-> 0, statusText |-> << >>, error |-> NoField],
      [kind |-> "network", status |-> 0, statusText |-> << >>, error |-> NoField] }

\* String(status) for a status of three digits
decimal == <<"0", "1", "2", "3", "4", "5", "6", "7", "8", "9">>
statusString(status) ==
    <<decimal[(status \div 100) + 1], decimal[((status \div 10) % 10) + 1], decimal[(status % 10) + 1]>>

\* request: what the call returns, or the message of the Error it throws
request(answer) ==
    IF answer.kind = "abort"
    THEN [ok |-> FALSE, message |-> texts.requestTimeout]
    ELSE IF answer.kind = "network"
    THEN [ok |-> FALSE, message |-> texts.cannotConnect]
    ELSE IF answer.kind # "json"
    THEN [ok |-> FALSE,
          message |-> texts.serverReturned \o statusString(answer.status) \o <<":", " ">> \o answer.statusText]
    ELSE IF answer.status < 200 \/ answer.status > 299
    THEN [ok |-> FALSE,
          message |-> IF answer.error # NoField
                      THEN answer.error
                      ELSE texts.hTTP \o statusString(answer.status) \o <<":", " ">> \o answer.statusText]
    ELSE [ok |-> TRUE, data |-> answer]

\* requestWithRetry's test of the messages it does not retry
isClientError(text) ==
    \/ includes(text, <<"4", "0", "0">>)
    \/ includes(text, <<"4", "0", "1">>)
    \/ includes(text, <<"4", "0", "3">>)
    \/ includes(text, <<"4", "0", "4">>)

\* Math.pow(2, n)
RECURSIVE pow2(_)
pow2(n) == IF n = 0 THEN 1 ELSE 2 * pow2(n - 1)

\* the wait without its cap
delayUncapped(attempt) == 1000 * pow2(attempt - 1)

\* the wait after a failed attempt
delay(attempt) == Min(1000 * pow2(attempt - 1), 5000)

\* the values of maxRetries requestWithRetry is called with; 3 is its
\* default, and with 5 the wait reaches its cap
RetryLimits == {1, 2, 3, 5}

\* requestWithRetry is called: the loop starts with attempt 1
CallWithRetry(maxRetries) ==
    /\ client.pc \in {"idle", "returned", "thrown"}
    /\ client' = [pc |-> "requesting", maxRetries |-> maxRetries, attempt |-> 1,
                  answers |-> << >>, waits |-> << >>]
    /\ UNCHANGED <<res, gone, requests, windows, phase, now, posts, likedPosts, pending, ret, ords,
                   nMade, likeLog, nLikes, nComments>>

\* the request of the current attempt settles with this answer: the loop
\* body runs up to its return, its throw or its wait; the loop's exit after
\* the last attempt throws lastError
Attempt(answer) ==
    /\ client.pc = "requesting"
    /\ LET out == request(answer)
           seen == [client EXCEPT !.answers = Append(@, answer)]
       IN  client' =
             IF out.ok
             THEN [seen EXCEPT !.pc = "returned"] @@ [value |-> out.data]
             ELSE IF isClientError(out.message)
             THEN [seen EXCEPT !.pc = "thrown"] @@ [error |-> out.message]
             ELSE IF client.attempt < client.maxRetries
             THEN [seen EXCEPT !.pc = "waiting", !.waits = Append(@, delay(client.attempt))]
             ELSE [seen EXCEPT !.pc = "thrown"] @@ [error |-> out.message]
    /\ UNCHANGED <<res, gone, requests, windows, phase, now, posts, likedPosts, pending, ret, ords,
                   nMade, likeLog, nLikes, nComments>>

\* the timer of the wait fires: the next attempt starts
Retry ==
    /\ client.pc = "waiting"
    /\ client' = [client EXCEPT !.pc = "requesting", !.attempt = @ + 1]
    /\ UNCHANGED <<res, gone, requests, windows, phase, now, posts, likedPosts, pending, ret, ords,
                   nMade, likeLog, nLikes, nComments>>

NextClient ==
    \/ \E maxRetries \in RetryLimits : CallWithRetry(maxRetries)
    \/ \E answer \in Answers : Attempt(answer)
    \/ Retry

SpecClient == Init /\ [][NextClient]_vars

\* every request settles (fetch answers, fails, or is aborted by the timer
\* request sets) and every timer of a wait fires
SpecRetry ==
    /\ Init
    /\ [][NextClient]_vars
    /\ WF_vars(\E answer \in Answers : Attempt(answer))
    /\ WF_vars(Retry)

-----------------------------------------------------------------------------
(* Vocabulary of the properties *)

\* the posts of a list carry no ipHash, nor do their comments
NoHashInPost(view) ==
    /\ "ipHash" \notin DOMAIN view
    /\ "comments" \in DOMAIN view =>
          \A k \in 1..Len(view.comments) : "ipHash" \notin DOMAIN view.comments[k]
NoHashInPosts(views) == \A k \in 1..Len(views) : NoHashInPost(views[k])

\* the step is a likePost(id, ip) call
IsLike(id, ip) ==
    /\ ret'.op = "likePost"
    /\ ret'.postId = id
    /\ ret'.ipHash = hashIP(ip)

\* the first stored post with this id, 0 when there is none
FirstWithId(id) ==
    IF \E i \in 1..Len(posts) : posts[i].id = id
    THEN CHOOSE i \in 1..Len(posts) :
            posts[i].id = id /\ \A k \in 1..(i - 1) : posts[k].id # id
    ELSE 0

\* the pairs <<ipHash, post id>> of the like ledger
LedgerPairs(lp) ==
    {pr \in (DOMAIN lp) \X UNION {lp[g] : g \in DOMAIN lp} : pr[2] \in lp[pr[1]]}

StoredIds == {posts[i].id : i \in 1..Len(posts)}

-----------------------------------------------------------------------------
(* C1 *)

\* C1: the store never holds more than maxPosts posts, and they are the most
\* recently built ones, newest first; a createPost call puts its post first,
\* keeps the posts before it in their order and drops the oldest beyond
\* maxPosts, so that createPost calls alone leave min(n, maxPosts) posts
C1_Capacity ==
    /\ [](/\ Len(posts) <= maxPosts
          /\ \A i \in 1..Len(posts) : ords[i] = nMade + 1 - i)
    /\ [][(phase = "listening" /\ nMade' = nMade + 1) =>
            /\ Len(posts') = Min(Len(posts) + 1, maxPosts)
            /\ sanitizePost(posts'[1]) = ret'.value
            /\ \A i \in 2..Len(posts') : posts'[i] = posts[i - 1]]_vars

\* three createPost calls on the empty store: C, B are left of A, B, C
C1_Witness ==
    /\ nMade = maxPosts + 1
    /\ Len(posts) = maxPosts
    /\ ords = <<3, 2>>
    /\ \A i \in 1..Len(posts) : posts[i].timestamp >= T0
    /\ ret.op = "createPost"

-----------------------------------------------------------------------------
(* C2 *)

\* C2 as stated: once X's like of P was accepted, every later likePost(P, X)
\* answers 'Already liked' and changes neither the posts nor the ledger; the
\* first like of the visible post P by another identity is accepted and
\* raises its count by one
C2_Original ==
    [][\A j \in 1..Len(posts), ip \in IPs :
          IsLike(posts[j].id, ip) =>
            IF BagIn(<<ords[j], hashIP(ip)>>, likeLog)
            THEN /\ ret'.value = AlreadyLiked
                 /\ posts' = posts
                 /\ likedPosts' = likedPosts
            ELSE (FirstWithId(posts[j].id) = j /\ posts[j].expiresAt >= now) =>
                 /\ ret'.value = [success |-> TRUE, likes |-> posts[j].likes + 1]
                 /\ posts' = [posts EXCEPT ![j].likes = @ + 1]]_vars

\* C2, amended: once X's like of the stored post P was accepted, every later
\* likePost(P, X) is rejected and changes neither the posts nor the ledger,
\* with 'Already liked' while the first stored post with P's id has not
\* expired (expiresAt >= now) and with 'Post not found' once it has; a like
\* naming P's id by an identity whose ledger set does not hold that id, while
\* the first stored post with that id has not expired, is accepted, raises
\* the count of that first post by exactly one, changes no other post and
\* adds exactly that pair to the ledger
C2_Idempotent ==
    [][\A j \in 1..Len(posts), ip \in IPs :
          IsLike(posts[j].id, ip) =>
            LET id == posts[j].id
                h == hashIP(ip)
                first == FirstWithId(id)
            IN  IF BagIn(<<ords[j], h>>, likeLog)
                THEN /\ ret'.value = IF posts[first].expiresAt >= now
                                     THEN AlreadyLiked ELSE PostNotFound
                     /\ posts' = posts
                     /\ likedPosts' = likedPosts
                ELSE (posts[first].expiresAt >= now
                        /\ <<h, id>> \notin LedgerPairs(likedPosts)) =>
                     /\ ret'.value = [success |-> TRUE, likes |-> posts[first].likes + 1]
                     /\ posts' = [posts EXCEPT ![first].likes = @ + 1]
                     /\ LedgerPairs(likedPosts') = LedgerPairs(likedPosts) \cup {<<h, id>>}]_vars

\* X has liked the created post P, its count is 1, and X's second like of P
\* was just rejected with 'Already liked'
C2_Witness ==
    /\ ret.op = "likePost"
    /\ ret.value = AlreadyLiked
    /\ \E j \in 1..Len(posts) :
          /\ posts[j].id = ret.postId
          /\ posts[j].likes = 1
          /\ posts[j].timestamp >= T0
          /\ BagIn(<<ords[j], ret.ipHash>>, likeLog)

-----------------------------------------------------------------------------
(* C3 *)

\* C3: whatever the order in which the waiting like requests, the other
\* handlers and the cleanup timer run, no stored post has had its like count
\* incremented twice for one identity
C3_OncePerIdentity ==
    \A e \in BagToSet(likeLog) : CopiesIn(e, likeLog) = 1

\* a like was accepted while an identical request, received before the
\* handler ran, is still waiting
C3_Witness ==
    /\ ret.op = "likePost"
    /\ ret.value.success
    /\ \E ip \in IPs :
          /\ ret.ipHash = hashIP(ip)
          /\ BagIn([postId |-> ret.postId, ip |-> ip], pending)


-----------------------------------------------------------------------------
(* C4 *)

\* C4: every post getPost, getPosts or searchPosts has just returned, and the
\* post whose comments getComments has just returned, has expiresAt strictly
\* greater than the time of the call
C4_ReturnedNotExpired ==
    /\ (ret.op = "getPost" /\ ret.value # Null) => ret.value.expiresAt > ret.at
    /\ ret.op = "getPosts" =>
          \A k \in 1..Len(ret.value.posts) : ret.value.posts[k].expiresAt > ret.at
    /\ ret.op = "searchPosts" =>
          \A k \in 1..Len(ret.value) : ret.value[k].expiresAt > ret.at
    /\ (ret.op = "getComments" /\ ret.value # << >>) =>
          posts[FirstWithId(ret.postId)].expiresAt > ret.at

-----------------------------------------------------------------------------
(* C5 *)

\* the stored posts that have not expired at t, in the claim's sense: t <= expiresAt
NotYetExpired(t) == {i \in 1..Len(posts) : t <= posts[i].expiresAt}

\* C5: while now <= expiresAt a stored post is returned by getPost and
\* getComments, counted by getStats, has its tags counted by getTrendingTags,
\* and is kept by cleanup
C5_NeverInvisibleEarly ==
    /\ [](/\ ret.op = "getPost" =>
               \A i \in NotYetExpired(ret.at) :
                  (FirstWithId(ret.postId) = i) => ret.value = sanitizePost(posts[i])
          /\ ret.op = "getComments" =>
               \A i \in NotYetExpired(ret.at) :
                  (FirstWithId(ret.postId) = i) => Len(ret.value) = Len(posts[i].comments)
          /\ ret.op = "getStats" =>
               ret.value.totalPosts >= Cardinality(NotYetExpired(ret.at))
          /\ ret.op = "getTrendingTags" =>
               ((\E i \in NotYetExpired(ret.at) : posts[i].tags # << >>) => ret.value # << >>))
    /\ [][ret'.op = "cleanup" =>
             \A i \in NotYetExpired(now) : \E k \in 1..Len(posts') : posts'[k] = posts[i]]_vars

-----------------------------------------------------------------------------
(* C6 *)

\* C6: every stored post has expiresAt = timestamp + maxAge, the 7 days of
\* retention, exactly
C6_ExpiryIsCreationPlusRetention ==
    \A i \in 1..Len(posts) : posts[i].expiresAt = posts[i].timestamp + maxAge

-----------------------------------------------------------------------------
(* C7 *)

\* C7: a cleanup() call at time now removes all and only the stored posts
\* with expiresAt <= now, keeps the others in their order and returns the
\* number of posts it removed
C7_CleanupExact ==
    [][ret'.op = "cleanup" =>
          /\ posts' = SelectSeq(posts, LAMBDA post : ~(post.expiresAt <= now))
          /\ ret'.value = Cardinality({i \in 1..Len(posts) : posts[i].expiresAt <= now})]_vars

\* a cleanup has removed a post that expired at this very instant and kept another
C7_Witness ==
    /\ ret.op = "cleanup"
    /\ ret.value > 0
    /\ ret.at = T0 + maxAge
    /\ Len(posts) > 0

-----------------------------------------------------------------------------
(* C8 *)

\* C8: right after cleanup() returns, every post id in every identity's set
\* of the like ledger is the id of a stored post, and no identity has an
\* empty set
C8_LedgerReconciled ==
    ret.op = "cleanup" =>
        \A h \in DOMAIN likedPosts :
            /\ likedPosts[h] # {}
            /\ likedPosts[h] \subseteq StoredIds

\* two likes were accepted, a cleanup removed a post, and one like is left
C8_Witness ==
    /\ ret.op = "cleanup"
    /\ ret.value > 0
    /\ nLikes = 2
    /\ Cardinality(LedgerPairs(likedPosts)) = 1

-----------------------------------------------------------------------------
(* C9 *)

\* C9: the like count of every stored post is the number of identities whose
\* ledger set holds the post's id
C9_LikesMatchLedger ==
    \A i \in 1..Len(posts) :
        posts[i].likes = Cardinality({h \in DOMAIN likedPosts : posts[i].id \in likedPosts[h]})

-----------------------------------------------------------------------------
(* C10 *)

\* C10: no value returned by createPost, getPosts, getPost, createComment,
\* getComments or searchPosts holds an ipHash, on a post or on a comment
\* nested in it
C10_NoIpHashReturned ==
    /\ ret.op = "createPost" => NoHashInPost(ret.value)
    /\ ret.op = "getPosts" => NoHashInPosts(ret.value.posts)
    /\ (ret.op = "getPost" /\ ret.value # Null) => NoHashInPost(ret.value)
    /\ (ret.op = "createComment" /\ ret.value.success) => NoHashInPost(ret.value.comment)
    /\ ret.op = "getComments" => NoHashInPosts(ret.value)
    /\ ret.op = "searchPosts" => NoHashInPosts(ret.value)

\* getPost has returned a post with a comment in it
C10_Witness ==
    /\ ret.op = "getPost"
    /\ ret.value # Null
    /\ Len(ret.value.comments) > 0
    /\ \E k \in 1..Len(posts) : posts[k].id = ret.postId /\ "ipHash" \in DOMAIN posts[k].comments[1]

-----------------------------------------------------------------------------
(* C11 *)

\* the page sizes and the pages C11 is stated for
SizesC11 == {1, 2, 3}
PagesC11 == 1..3

\* the sequence as a bag of its elements
BagOfSeq(s) == [x \in Range(s) |-> Cardinality({k \in 1..Len(s) : s[k] = x})]

\* pages 1..n of getPosts, one after the other
RECURSIVE PagesUpTo(_, _, _, _)
PagesUpTo(n, category, size, sort) ==
    IF n = 0 THEN << >>
    ELSE PagesUpTo(n - 1, category, size, sort)
            \o getPosts(posts, now, category, n, size, sort).posts

\* the stored posts getPosts matches: not expired for a read, of the category asked for
MatchingC11(category) ==
    SelectSeq(posts, LAMBDA post :
        /\ ~(post.expiresAt < now)
        /\ (category # "undefined" => post.category = category))

\* C11: right after a getPosts call, for the store and the instant of the
\* call and every category, sort key, page p >= 1 and page size s >= 1:
\* the page holds at most s posts; pages 1..totalPages one after the other
\* are the whole filtered and sorted list, each matching post exactly once;
\* totalPages = ceil(total / s), hasNext iff p < totalPages, hasPrev iff
\* p > 1, and totalPosts is the number of matching posts
C11_Pagination ==
    ret.op = "getPosts" =>
        \A category \in ListCategories, sort \in SortKeys, size \in SizesC11 :
            LET all == getPosts(posts, now, category, 1, Len(posts) + 1, sort).posts
                total == Len(MatchingC11(category))
                totalPages == CHOOSE n \in 0..total : n * size >= total /\ (n - 1) * size < total
            IN  /\ PagesUpTo(totalPages, category, size, sort) = all
                /\ BagOfSeq(all) = BagOfSeq(map(MatchingC11(category), sanitizePost))
                /\ Len(all) = total
                /\ \A page \in PagesC11 :
                      LET got == getPosts(posts, now, category, page, size, sort)
                      IN  /\ Len(got.posts) <= size
                          /\ got.pagination.total = totalPages
                          /\ got.pagination.hasNext = (page < totalPages)
                          /\ got.pagination.hasPrev = (page > 1)
                          /\ got.pagination.totalPosts = total
                          /\ got.pagination.current = page

\* getPosts has returned page 2 of 2, one post of the two the store holds
C11_Witness ==
    /\ ret.op = "getPosts"
    /\ ret.value.pagination.current = 2
    /\ ret.value.pagination.total = 2
    /\ ret.value.pagination.hasPrev
    /\ ~ret.value.pagination.hasNext
    /\ Len(ret.value.posts) = 1
    /\ ret.value.posts[1].id = posts[2].id

-----------------------------------------------------------------------------
(* C12 *)

\* the step is a request of key going through the limiter
IsLimited(key) == ret'.op = "rateLimit" /\ ret'.key = key

\* the request of key arriving now falls in the key's current window
InWindow(key) == key \in DOMAIN windows /\ now - windows[key].start <= windowMs

\* C12: of the requests of one identity that arrive no later than windowMs
\* after the request that opened its current window, that request included,
\* the first max are passed on to the next handler and every further one is
\* answered 429 with a retryAfter that is a positive number of seconds
C12_FirstMaxPassed ==
    [][\A ip \in IPs :
          IsLimited(hashIP(ip)) =>
             IF InWindow(hashIP(ip)) /\ windows[hashIP(ip)].accepted >= max
             THEN /\ ret'.value # NextCalled
                  /\ ret'.value.status = 429
                  /\ ret'.value.retryAfter > 0
             ELSE ret'.value = NextCalled]_vars

-----------------------------------------------------------------------------
(* C13 *)

\* C13: the window start the limiter keeps for an identity is the arrival
\* time of the request that opened the identity's window; a request
\* arriving inside the window, accepted or rejected, leaves it where it
\* was; the first request arriving after windowMs has elapsed since the
\* window start is passed on and opens a window with count 1 and window
\* start equal to its arrival time
C13_FixedWindow ==
    /\ [](\A key \in DOMAIN requests :
             key \in DOMAIN windows /\ requests[key].resetTime = windows[key].start)
    /\ [][\A ip \in IPs :
             LET key == hashIP(ip)
             IN  IsLimited(key) =>
                    IF InWindow(key)
                    THEN /\ key \in DOMAIN requests'
                         /\ requests'[key].resetTime = windows[key].start
                    ELSE /\ ret'.value = NextCalled
                         /\ requests'[key] = [count |-> 1, resetTime |-> now]]_vars

\* an identity whose first window was used up has just opened its second one
C13_Witness ==
    /\ ret.op = "rateLimit"
    /\ ret.value = NextCalled
    /\ windows[ret.key].nth = 2
    /\ windows[ret.key].start = T0 + windowMs + 1
    /\ requests[ret.key] = [count |-> 1, resetTime |-> now]
    /\ now = T0 + windowMs + 1

-----------------------------------------------------------------------------
(* C14 *)

\* the rate limiters of the write endpoints
LimitersC14 == {"globalLimiter", "postLimiter", "commentLimiter", "likeLimiter"}

\* C14: at each write endpoint the store operation is invoked only for a
\* request that has passed, in this order, Sanitize, the suspicious-pattern
\* check, a rate-limit check and the content-spam check; a request that a
\* stage rejects changes neither the posts nor the like ledger
C14_PipelineOrder ==
    /\ []((res.endpoint # "none" /\ res.storeCalled) =>
             \E i, j, k, l \in 1..(Len(res.passed) + 1) :
                 /\ i < j /\ j < k /\ k < l /\ l <= Len(res.passed)
                 /\ res.passed[i] = "sanitizeInput"
                 /\ res.passed[j] = "validateInput"
                 /\ res.passed[k] \in LimitersC14
                 /\ res.passed[l] = "contentFilter")
    /\ [][(res'.endpoint # "none" /\ ~res'.storeCalled) =>
             (posts' = posts /\ likedPosts' = likedPosts)]_vars

-----------------------------------------------------------------------------
(* C15 *)

\* the ids of the comments of the stored posts, with the place of each
CommentPlaces == {<<i, k>> \in (1..Len(posts)) \X (1..(MaxComments + 1)) : k <= Len(posts[i].comments)}

\* C15: no two stored posts share an id, no two comments of the stored posts
\* share an id, and no step changes the id of a post or of a comment it keeps
C15_UniqueIds ==
    /\ [](/\ \A i, j \in 1..Len(posts) : i # j => posts[i].id # posts[j].id
          /\ \A p, q \in CommentPlaces :
                p # q => posts[p[1]].comments[p[2]].id # posts[q[1]].comments[q[2]].id)
    /\ [][\A i \in 1..Len(posts) : \A j \in 1..Len(posts') :
            ords[i] = ords'[j] =>
                /\ posts'[j].id = posts[i].id
                /\ \A k \in 1..Len(posts[i].comments) :
                      /\ k <= Len(posts'[j].comments)
                      /\ posts'[j].comments[k].id = posts[i].comments[k].id]_vars

-----------------------------------------------------------------------------
(* C16 *)

\* the constraints on a body, as the property words them
TitleOkC16(body) ==
    body.title.type = "string" /\ Len(trim(body.title.v)) >= 3 /\ Len(trim(body.title.v)) <= 200
ContentOkC16(body) ==
    /\ body.content.type = "string"
    /\ Len(trim(body.content.v)) >= 10 /\ Len(trim(body.content.v)) <= 2000
CategoryOkC16(body) ==
    body.category.type = "word" /\ body.category.v \in validCategories
TagsCountOkC16(body) == body.tags.type = "array" => Len(body.tags.v) <= 5
TagsEachOkC16(body) ==
    body.tags.type = "array" =>
        \A k \in 1..Len(body.tags.v) :
            body.tags.v[k].type = "string" /\ Len(body.tags.v[k].v) <= 50
ViolatedC16(body) ==
    (IF TitleOkC16(body) THEN 0 ELSE 1) + (IF ContentOkC16(body) THEN 0 ELSE 1)
    + (IF CategoryOkC16(body) THEN 0 ELSE 1) + (IF TagsCountOkC16(body) THEN 0 ELSE 1)
    + (IF TagsEachOkC16(body) THEN 0 ELSE 1)
Cites(details, text) == \E k \in 1..Len(details) : details[k] = text

\* C16: validatePostData calls the next handler exactly when the trimmed
\* title has 3 to 200 characters, the trimmed content 10 to 2000, the
\* category is one of the seven and tags, when an array, has at most 5
\* entries, each a string of at most 50 characters; otherwise it answers 400
\* 'Validation failed' with one detail for every violated constraint, and a
\* title too short is answered with the detail on the minimum title length
C16_ValidatePostData ==
    ret.op = "validatePostData" =>
        /\ (ret.value = NextCalled) <=> (ViolatedC16(ret.body) = 0)
        /\ ret.value # NextCalled =>
              /\ ret.value.status = 400
              /\ ret.value.error = "Validation failed"
              /\ Len(ret.value.details) = ViolatedC16(ret.body)
              /\ \A j, k \in 1..Len(ret.value.details) :
                    j # k => ret.value.details[j] # ret.value.details[k]
              /\ (ret.body.title.type = "string" /\ ret.body.title.v # << >>
                    /\ Len(trim(ret.body.title.v)) < 3) =>
                    Cites(ret.value.details, "Title must be at least 3 characters")
              /\ ~TagsCountOkC16(ret.body) =>
                    Cites(ret.value.details, "Maximum 5 tags allowed")
              /\ ~CategoryOkC16(ret.body) =>
                    Cites(ret.value.details, "Valid category is required")

\* title 'Hi' with every other field in order has been refused with the one
\* detail on the minimum title length
C16_Witness ==
    /\ ret.op = "validatePostData"
    /\ ret.body.title = JsString(<<"H", "i">>)
    /\ ContentOkC16(ret.body) /\ CategoryOkC16(ret.body)
    /\ ret.body.tags.type = "array" /\ Len(ret.body.tags.v) = 5
    /\ ret.value = [status |-> 400, error |-> "Validation failed",
                    details |-> <<"Title must be at least 3 characters">>]

-----------------------------------------------------------------------------
(* C17 *)

\* the first five entries of a list, all of them when it has five or fewer
FirstFiveC17(tags) == [k \in 1..(IF Len(tags) < 5 THEN Len(tags) ELSE 5) |-> tags[k]]

\* C17: every stored post has at most 5 tags, and the post a createPost call
\* stores, and the one it returns, hold the first 5 of the supplied tags (all
\* of them when there are 5 or fewer) in their supplied order
C17_AtMostFiveTags ==
    /\ [](\A i \in 1..Len(posts) : Len(posts[i].tags) <= 5)
    /\ [][(ret'.op = "createPost" /\ nMade' = nMade + 1) =>
            \A in \in CreateInputs :
                posts'[1].title = in.title =>
                    /\ posts'[1].tags = FirstFiveC17(in.tags)
                    /\ ret'.value.tags = FirstFiveC17(in.tags)]_vars

\* createPost has just stored the post it was given with seven tags, with
\* the first five of them
C17_Witness ==
    /\ ret.op = "createPost"
    /\ Len(posts) > 0
    /\ posts[1].title = <<"V", "I", "I">>
    /\ posts[1].tags = << <<"g">>, <<"f">>, <<"e">>, <<"d">>, <<"c">> >>
    /\ ret.value.id = posts[1].id

-----------------------------------------------------------------------------
(* C18 *)

-----------------------------------------------------------------------------
(* C19 *)

\* no stored post with this id is left that has not expired; a post has
\* expired once the clock has passed its expiresAt (expiresAt < now), which
\* is the test of the four operations
GoneC19(id) == \A i \in 1..Len(posts) : posts[i].id = id => posts[i].expiresAt < now

\* C19: likePost and createComment on an id that no stored post has, or whose
\* post has expired, return success = false with 'Post not found' and change
\* neither the posts nor the like ledger (no entry is made for the
\* requester); getPost then returns null and getComments an empty list
C19_NotFound ==
    /\ []((ret.op = "getPost" /\ GoneC19(ret.postId)) => ret.value = Null)
    /\ []((ret.op = "getComments" /\ GoneC19(ret.postId)) => ret.value = << >>)
    /\ [][(ret'.op \in {"likePost", "createComment"} /\ GoneC19(ret'.postId)) =>
            /\ ret'.value = [success |-> FALSE, message |-> "Post not found"]
            /\ posts' = posts
            /\ likedPosts' = likedPosts]_vars

\* a like of a post that is still stored after its expiry has just been
\* answered 'Post not found', and the ledger holds nothing
C19_Witness ==
    /\ ret.op = "likePost"
    /\ ret.value = PostNotFound
    /\ \E i \in 1..Len(posts) : posts[i].id = ret.postId /\ posts[i].expiresAt < now
    /\ likedPosts = << >>

-----------------------------------------------------------------------------
(* C20 *)

\* the fields of a post that are set when it is built
FixedFieldsC20 ==
    {"id", "anonId", "title", "content", "category", "tags", "timestamp", "expiresAt"}

\* the operations that only read
ReadOpsC20 ==
    {"getPosts", "getPost", "getComments", "getStats", "getTrendingTags", "searchPosts"}

\* the step is a call of op on the post with this id that was accepted
AcceptedC20(op, id) == ret'.op = op /\ ret'.postId = id /\ ret'.value.success

\* C20: from one state to the next a post that stays stored keeps its id,
\* alias, title, content, category, tags, timestamp and expiresAt, and its
\* comments as they are and where they are; its like count changes only by +1
\* in an accepted likePost on its id, its comment list only by one comment at
\* the end in an accepted createComment on its id; and getPosts, getPost,
\* getComments, getStats, getTrendingTags and searchPosts change neither the
\* posts, nor their order, nor the like ledger
C20_Frame ==
    [][/\ \A i \in 1..Len(posts) : \A j \in 1..Len(posts') :
            ords[i] = ords'[j] =>
                LET old == posts[i]
                    new == posts'[j]
                IN  /\ \A f \in FixedFieldsC20 : new[f] = old[f]
                    /\ Len(new.comments) >= Len(old.comments)
                    /\ SubSeq(new.comments, 1, Len(old.comments)) = old.comments
                    /\ new.comments # old.comments =>
                          /\ Len(new.comments) = Len(old.comments) + 1
                          /\ AcceptedC20("createComment", old.id)
                          /\ ret'.value.comment = sanitizeComment(new.comments[Len(new.comments)])
                    /\ new.likes >= old.likes
                    /\ new.likes # old.likes =>
                          /\ new.likes = old.likes + 1
                          /\ AcceptedC20("likePost", old.id)
       /\ ret'.op \in ReadOpsC20 => (posts' = posts /\ likedPosts' = likedPosts)]_vars

\* a comment has just been accepted on a post that had one already: the old
\* one is still the first, the new one the second, and the likes are as drawn
C20_Witness ==
    /\ ret.op = "createComment"
    /\ ret.value # PostNotFound
    /\ \E i \in 1..Len(posts) :
          /\ posts[i].id = ret.postId
          /\ Len(posts[i].comments) = 2
          /\ posts[i].comments[1].ipHash = hashIP("sample-commenter-1")
          /\ sanitizeComment(posts[i].comments[2]) = ret.value.comment
          /\ posts[i].likes > 0

-----------------------------------------------------------------------------
(* C21 *)

\* the sort keys C21 is stated for: the three of the switch, an absent one
\* and one the switch does not know
SortsC21 == SortKeys \cup {"undefined", "hot"}

\* the key of a post the order goes by
KeyC21(post, sort) ==
    IF sort = "likes" THEN post.likes
    ELSE IF sort = "comments" THEN Len(post.comments)
    ELSE post.timestamp

\* the place the i-th matching post must take: after the posts with a larger
\* key and after the posts with the same key stored before it
PlaceC21(matching, i, sort) ==
    1 + Cardinality({j \in 1..Len(matching) :
                        \/ KeyC21(matching[j], sort) > KeyC21(matching[i], sort)
                        \/ (KeyC21(matching[j], sort) = KeyC21(matching[i], sort) /\ j < i)})

\* C21: right after a getPosts call, for the store and the instant of the
\* call, every category and every sort key: the list getPosts returns holds
\* the matching posts by descending key (timestamp for the key "timestamp",
\* for an absent and for an unknown key, likes, number of comments), the
\* posts with equal keys in the order the store holds them
C21_SortedDescStable ==
    ret.op = "getPosts" =>
        \A category \in ListCategories, sort \in SortsC21 :
            LET all == getPosts(posts, now, category, 1, Len(posts) + 1, sort).posts
                matching == MatchingC11(category)
            IN  /\ Len(all) = Len(matching)
                /\ \A i \in 1..Len(matching) :
                      all[PlaceC21(matching, i, sort)] = sanitizePost(matching[i])
                /\ \A a, b \in 1..Len(all) :
                      a < b => KeyC21(all[a], sort) >= KeyC21(all[b], sort)

\* getPosts has returned the two stored posts by likes: the second of the
\* store, older and with more likes, comes first
C21_Witness ==
    /\ ret.op = "getPosts"
    /\ Len(ret.value.posts) = 2
    /\ ret.value.posts[1].likes > ret.value.posts[2].likes
    /\ ret.value.posts[1].timestamp < ret.value.posts[2].timestamp
    /\ ret.value.posts[1].id = posts[2].id
    /\ posts[1].id # posts[2].id

-----------------------------------------------------------------------------
(* C22 *)

\* the queries and the limits C22 is stated for
QueriesC22 ==
    Queries \cup { << >>, <<" ", "a", " ">>, <<" ", "A", "b", " ">>, <<"A", "I">>, <<"x", "y">>,
                   <<"w", "e">>, <<"a", "I">> }
LimitsC22 == {1, 2, 20}

\* the field contains the text, whatever the case of the letters
ContainsC22(field, text) == includes(toLowerCase(field), toLowerCase(text))

\* the stored posts that have not expired and hold the text in their title,
\* their content or one of their tags, in storage order; a post has expired
\* for searchPosts once the clock has passed its expiresAt (the instant
\* now = expiresAt, at which the operations disagree, is the matter of C4,
\* C5 and C29)
FoundC22(text) ==
    SelectSeq(posts, LAMBDA post :
        /\ now <= post.expiresAt
        /\ \/ ContainsC22(post.title, text)
           \/ ContainsC22(post.content, text)
           \/ \E k \in 1..Len(post.tags) : ContainsC22(post.tags[k], text))

\* C22: right after a searchPosts call, for the store and the instant of the
\* call, every query and every limit: searchPosts returns the empty list when
\* the trimmed query has fewer than 2 characters, and otherwise the first
\* `limit` of the posts, in storage order, that have not expired and hold the
\* trimmed query in title, content or a tag, whatever the case
C22_Search ==
    ret.op = "searchPosts" =>
        \A query \in QueriesC22, limit \in LimitsC22 :
            LET got == searchPosts(posts, now, query, limit)
                found == FoundC22(trim(query))
            IN  IF Len(trim(query)) < 2 THEN got = << >>
                ELSE got = [k \in 1..(IF Len(found) < limit THEN Len(found) ELSE limit) |->
                               sanitizePost(found[k])]

\* searchPosts with limit 1 has returned the first of the two stored posts
\* that hold the query "ab", both with the title "Ab"
C22_Witness ==
    /\ ret.op = "searchPosts"
    /\ Len(ret.value) = 1
    /\ Len(FoundC22(<<"a", "b">>)) = 2
    /\ ret.value[1] = sanitizePost(posts[1])
    /\ posts[1].title = <<"A", "b">>

-----------------------------------------------------------------------------
(* C23 *)

\* the limits C23 is stated for
LimitsC23 == {1, 2, 3, 10}

\* the tags of the posts that have not expired (now < expiresAt), as a scan
\* of the posts in storage order and of each post's tags in stored order
ScanC23 ==
    concatAll([i \in 1..Len(posts) |->
                  IF now < posts[i].expiresAt THEN posts[i].tags ELSE << >>])

\* the occurrences of a tag in the scan, and the place of its first one
CountC23(tag) == Cardinality({k \in 1..Len(ScanC23) : ScanC23[k] = tag})
FirstC23(tag) == CHOOSE k \in 1..Len(ScanC23) : ScanC23[k] = tag /\ \A j \in 1..(k - 1) : ScanC23[j] # tag

\* the place of a tag in the full list: after the tags with a larger count
\* and after those with the same count met earlier in the scan
PlaceC23(tag) ==
    1 + Cardinality({other \in Range(ScanC23) :
                        \/ CountC23(other) > CountC23(tag)
                        \/ (CountC23(other) = CountC23(tag) /\ FirstC23(other) < FirstC23(tag))})

\* C23: right after a getTrendingTags call, for the store and the instant of
\* the call and every limit: getTrendingTags returns the first `limit` of the
\* {tag, count} pairs of the tags of the posts that have not expired, count
\* being the tag's number of occurrences, by descending count, the tags with
\* equal counts in the order in which the scan first meets them
C23_Trending ==
    ret.op = "getTrendingTags" =>
        \A limit \in LimitsC23 :
            LET got == getTrendingTags(posts, now, limit)
                n == Cardinality(Range(ScanC23))
            IN  /\ Len(got) = (IF n < limit THEN n ELSE limit)
                /\ \A tag \in Range(ScanC23) :
                      PlaceC23(tag) <= limit =>
                          got[PlaceC23(tag)] = [tag |-> tag, count |-> CountC23(tag)]

-----------------------------------------------------------------------------
(* C24 *)

\* the stored posts that have not expired (now < expiresAt)
LiveC24 == SelectSeq(posts, LAMBDA post : now < post.expiresAt)

\* the comments of the live posts, one list
LiveCommentsC24 == concatAll([i \in 1..Len(LiveC24) |-> LiveC24[i].comments])

\* the timestamps within the last 24 hours
TodayC24(timestamp) == timestamp > now - 24 * 60 * 60 * 1000

\* the sum of the like counts of the first n live posts
RECURSIVE LikesC24(_)
LikesC24(n) == IF n = 0 THEN 0 ELSE LikesC24(n - 1) + LiveC24[n].likes

\* C24: right after a getStats call, totalPosts, totalComments, totalLikes,
\* postsToday, commentsToday and the counts by category are those of the
\* posts that have not expired, memoryUsage.posts is the number of stored
\* posts, expired ones included, memoryUsage.usage that number as a rounded
\* percentage of maxPosts, and totalPosts <= memoryUsage.posts <= maxPosts
C24_Stats ==
    ret.op = "getStats" =>
        LET stats == ret.value
        IN  /\ stats.totalPosts = Len(LiveC24)
            /\ stats.totalComments = Len(LiveCommentsC24)
            /\ stats.totalLikes = LikesC24(Len(LiveC24))
            /\ stats.postsToday = Len(SelectSeq(LiveC24, LAMBDA post : TodayC24(post.timestamp)))
            /\ stats.commentsToday =
                  Len(SelectSeq(LiveCommentsC24, LAMBDA comment : TodayC24(comment.timestamp)))
            /\ DOMAIN stats.categories = {LiveC24[i].category : i \in 1..Len(LiveC24)}
            /\ \A c \in DOMAIN stats.categories :
                  stats.categories[c] = Len(SelectSeq(LiveC24, LAMBDA post : post.category = c))
            /\ stats.memoryUsage.posts = Len(posts)
            /\ stats.memoryUsage.maxPosts = maxPosts
            /\ 2 * maxPosts * stats.memoryUsage.usage <= 200 * Len(posts) + maxPosts
            /\ 2 * maxPosts * (stats.memoryUsage.usage + 1) > 200 * Len(posts) + maxPosts
            /\ stats.totalPosts <= stats.memoryUsage.posts
            /\ stats.memoryUsage.posts <= maxPosts

\* getStats has counted one post while the store holds more: an expired
\* post is still stored
C24_Witness ==
    /\ ret.op = "getStats"
    /\ ret.value.totalPosts = 1
    /\ ret.value.memoryUsage.posts > 1
    /\ \E i \in 1..Len(posts) : posts[i].expiresAt < now
    /\ ret.value.memoryUsage.usage > 50

-----------------------------------------------------------------------------
(* C25 *)

\* C25: every alias generateAnonId returns is one of the 13 prefixes followed
\* by a number of four digits, from 1000 to 9999
C25_AliasRange ==
    ret.op = "generateAnonId" =>
        /\ \E k \in 1..13 : ret.value[1] = prefixes[k]
        /\ Len(prefixes) = 13
        /\ ret.value[2] >= 1000
        /\ ret.value[2] <= 9999

-----------------------------------------------------------------------------
(* C26 *)

\* the answer is an HTTP response with a client-error status
Is4xxC26(answer) ==
    answer.kind \in {"json", "other"} /\ answer.status >= 400 /\ answer.status <= 499

\* C26: in a requestWithRetry call, an attempt answered with a 4xx response
\* is the last one: the call has thrown the error, no attempt follows it and
\* no wait was started after it
C26_NoRetryOn4xx ==
    client.pc # "idle" =>
        \A k \in 1..Len(client.answers) :
            Is4xxC26(client.answers[k]) =>
                /\ k = Len(client.answers)
                /\ client.pc = "thrown"
                /\ Len(client.waits) = k - 1

-----------------------------------------------------------------------------
(* C27 *)

\* C27: after any sequence of calls to one limiter, every identity's entry
\* has 1 <= count <= max and a window start no more than windowMs before the
\* time of the latest call, and the number of requests accepted for an
\* identity between the opening of a window and the opening of its next
\* window never exceeds max
C27_EntriesBounded ==
    /\ \A key \in DOMAIN requests :
           /\ 1 <= requests[key].count
           /\ requests[key].count <= max
           /\ ret.op = "rateLimit" => ret.at - requests[key].resetTime <= windowMs
    /\ \A key \in DOMAIN windows : windows[key].accepted <= max

\* a request has just been answered 429 at the last instant of a window in
\* which max requests were accepted, while the other identity has an entry
C27_Witness ==
    /\ ret.op = "rateLimit"
    /\ ret.value # NextCalled
    /\ requests[ret.key].count = max
    /\ windows[ret.key].accepted = max
    /\ ret.at - requests[ret.key].resetTime = windowMs
    /\ Cardinality(DOMAIN requests) = 2

-----------------------------------------------------------------------------
(* C28 *)

\* the step is a request of key that the limiter answers 429
IsRejectedC28(key) == IsLimited(key) /\ ret'.value # NextCalled /\ ret'.value.status = 429

\* C28: a request answered 429 leaves its identity's entry as it was, count
\* and window start; so whatever the number of rejected requests, the
\* identity's request arriving more than windowMs after the start of its
\* window is passed on; and a request of one identity leaves the entry of
\* every other identity that is still inside its window as it was
C28_RejectedFrame ==
    [][\A ip \in IPs :
          LET key == hashIP(ip)
          IN  /\ IsRejectedC28(key) =>
                    /\ key \in DOMAIN requests
                    /\ key \in DOMAIN requests'
                    /\ requests'[key] = requests[key]
              /\ IsLimited(key) /\ key \in DOMAIN windows /\ now - windows[key].start > windowMs =>
                    ret'.value = NextCalled
              /\ IsLimited(key) =>
                    \A other \in DOMAIN requests \ {key} :
                        now - requests[other].resetTime <= windowMs =>
                            /\ other \in DOMAIN requests'
                            /\ requests'[other] = requests[other]]_vars

\* an identity whose window opened at T0 has just been rejected at the last
\* instant of that window, the other identity being inside a window of its own
C28_Witness ==
    /\ ret.op = "rateLimit"
    /\ ret.value # NextCalled
    /\ ret.at = T0 + windowMs
    /\ requests[ret.key] = [count |-> max, resetTime |-> T0]
    /\ \E other \in DOMAIN requests \ {ret.key} : requests[other].resetTime = T0 + 1

-----------------------------------------------------------------------------
(* C29 *)

\* the sum of the counts of a per-category tally
RECURSIVE TallySumC29(_)
TallySumC29(tally) ==
    IF DOMAIN tally = {} THEN 0
    ELSE LET c == CHOOSE c \in DOMAIN tally : TRUE
         IN  tally[c] + TallySumC29([d \in DOMAIN tally \ {c} |-> tally[d]])

\* C29: at any instant and in any reachable state, the totalPosts of
\* getStats equals the pagination.totalPosts of getPosts called without a
\* category at the same instant, and equals the sum of the per-category
\* counts of getStats
C29_ReadsAgree ==
    LET stats == getStats(posts, now)
        listed == getPosts(posts, now, "undefined", 1, 20, "timestamp")
    IN  /\ stats.totalPosts = listed.pagination.totalPosts
        /\ stats.totalPosts = TallySumC29(stats.categories)

-----------------------------------------------------------------------------
(* C30 *)

\* the ids of the posts in a list of posts
IdsC30(list) == {list[k].id : k \in 1..Len(list)}

\* C30: the clock never going back, once getPost(id) has returned null for
\* a post that was created (a post with that id was stored when it did),
\* every later getPost and getComments of the id answers null and the empty
\* list, no later getPosts or searchPosts lists a post with the id, and every
\* later likePost or createComment on the id is answered 'Post not found';
\* no step changes the expiresAt of a post that stays stored, none stores
\* again a post that was removed, none stores a post under such an id
C30_ExpiryPermanent ==
    /\ [](\A id \in gone :
             /\ ret.op = "getPost" /\ ret.postId = id => ret.value = Null
             /\ ret.op = "getComments" /\ ret.postId = id => ret.value = << >>
             /\ ret.op = "getPosts" => id \notin IdsC30(ret.value.posts)
             /\ ret.op = "searchPosts" => id \notin IdsC30(ret.value)
             /\ ret.op \in {"likePost", "createComment"} /\ ret.postId = id =>
                    ret.value = PostNotFound)
    /\ [][/\ now' >= now
          /\ \A i \in 1..Len(posts) : \A j \in 1..Len(posts') :
                ords[i] = ords'[j] => posts'[j].expiresAt = posts[i].expiresAt
          /\ \A j \in 1..Len(posts') :
                \/ ords'[j] > nMade /\ posts'[j].id \notin gone
                \/ \E i \in 1..Len(posts) : ords[i] = ords'[j]]_vars

\* getPost has answered null for the id of a post that is still stored, a
\* like of that id has just been answered 'Post not found', and another
\* post is stored that has not expired
C30_Witness ==
    /\ ret.op = "likePost"
    /\ ret.postId \in gone
    /\ ret.value = PostNotFound
    /\ \E i \in 1..Len(posts) : posts[i].id = ret.postId
    /\ \E i \in 1..Len(posts) : ~(posts[i].expiresAt < now)

-----------------------------------------------------------------------------
(* C31 *)

\* the ids the posts of a run can get
IdsC31 == {generateId(t, r) : t \in Instants, r \in 0..(RandomScale - 1)}

\* the like ledger holds the id for some identity
LikedC31(id) == \E h \in DOMAIN likedPosts : id \in likedPosts[h]

\* C31: the clock advancing and the cleanup job being run again and again,
\* every post that is built is eventually no longer stored, removed by the
\* capacity rule or by cleanup, and every id the like ledger holds is
\* eventually no longer held; a cleanup run that throws leaves the job on
\* its timer
C31_EventuallyRemoved ==
    /\ \A o \in 1..MaxMade : (o \in Range(ords)) ~> (o \notin Range(ords))
    /\ \A id \in IdsC31 : LikedC31(id) ~> ~LikedC31(id)
    /\ [][ret'.op = "cleanupJob" => phase' = "listening"]_vars

\* after likes were accepted and every post of the run was built, a cleanup
\* at the instant the last posts expire has removed posts and left both the
\* store and the ledger empty
C31_Witness ==
    /\ ret.op = "cleanup"
    /\ ret.value > 0
    /\ now = T0 + 2 * maxAge + 1
    /\ nMade = MaxMade
    /\ nLikes > 0
    /\ posts = << >>
    /\ likedPosts = << >>

-----------------------------------------------------------------------------
(* C32 *)

\* the attempt answered this way succeeded
SucceededC32(answer) == answer.kind = "json" /\ answer.status >= 200 /\ answer.status <= 299

\* the wait before attempt k + 1
WaitC32(k) == IF 1000 * 2^(k - 1) < 5000 THEN 1000 * 2^(k - 1) ELSE 5000

\* the call is over
DoneC32 == client.pc \in {"returned", "thrown"}

\* C32: a requestWithRetry call with maxRetries >= 1 terminates, after at
\* most maxRetries attempts; it returns the result of the first attempt that
\* succeeds and makes no attempt after it; when it throws, every attempt has
\* failed and the error is that of the last attempt; the wait before attempt
\* k + 1 is min(1000 * 2^(k - 1), 5000) ms, and no wait follows the last
\* attempt
C32_Terminates ==
    /\ (client.pc = "requesting") ~> DoneC32
    /\ [](client.pc # "idle" =>
             /\ Len(client.answers) <= client.maxRetries
             /\ \A k \in 1..(Len(client.answers) - 1) : ~SucceededC32(client.answers[k])
             /\ \A k \in 1..Len(client.waits) : client.waits[k] = WaitC32(k)
             /\ client.pc = "requesting" =>
                    Len(client.waits) = Len(client.answers) /\ Len(client.answers) = client.attempt - 1
             /\ client.pc = "waiting" =>
                    Len(client.waits) = Len(client.answers) /\ Len(client.answers) < client.maxRetries
             /\ DoneC32 =>
                    /\ Len(client.answers) >= 1
                    /\ Len(client.waits) = Len(client.answers) - 1
             /\ client.pc = "returned" =>
                    /\ SucceededC32(client.answers[Len(client.answers)])
                    /\ client.value = client.answers[Len(client.answers)]
             /\ client.pc = "thrown" =>
                    /\ ~SucceededC32(client.answers[Len(client.answers)])
                    /\ client.error = request(client.answers[Len(client.answers)]).message)

\* a call with maxRetries 5 has thrown the error of its fifth attempt after
\* the waits of 1000, 2000, 4000 and 5000 ms
C32_Witness ==
    /\ client.pc = "thrown"
    /\ client.maxRetries = 5
    /\ Len(client.answers) = 5
    /\ client.waits = <<1000, 2000, 4000, 5000>>

====
